---- MODULE Spec2Model ----
(***************************************************************************)
(* Plate-details enrichment pipelines of prefect-server.                   *)
(*                                                                         *)
(* Two implementations of the same pending-work state machine exist in the *)
(* repository and both are modelled, selected by the variable impl:        *)
(*   "pg" : flows/vehicle/main_details.py (PostgreSQL, AnyCarAPIClient)    *)
(*   "sf" : flows/vehicle/vehicle_details_api_to_snowflake.py (Snowflake,  *)
(*          query_plate_api)                                               *)
(* The work table BRZ_01_PLACA_RAW is status/reason/attempts/insertedAt,   *)
(* the downstream table BRZ_02_VEICULO_DETALHE is details.                 *)
(***************************************************************************)
EXTENDS Integers, Sequences, FiniteSets, TLC

VARIABLES
    impl,               \* which pipeline the runs execute: "pg" or "sf"
    timed,              \* TRUE: the wall clock advances (sleeps, request durations)
    batch_size,         \* flow parameter batch_size
    answers,            \* responses the provider may give
    quota429,           \* 429 responses the provider gives to one invocation at most
    status,             \* ds_status per plate: "N","P","E","S","I"; "-" = no row
    reason,             \* ds_motivo_erro per plate (NoReason = NULL)
    attempts,           \* nr_tentativas per plate
    insertedAt,         \* dt_insercao per plate
    details,            \* number of rows of the downstream table per plate
    pc,                 \* position of each run in its flow
    runsLeft,           \* number of flow invocations still to be started
    batch,              \* plates returned by get_pending_plates to each run
    readStatus,         \* DS_STATUS of the plates the run's get_pending returned ("" = not returned)
    claimRows,          \* plates counted by the rowcount of the run's claim update
    rows_updated,       \* plates counted by the rowcount of the run's last status UPDATE
    idx,                \* index in batch of the plate being processed (1-based)
    tries,              \* attempts: 429 answers received for the current plate
    results,            \* plates with a success row (df)
    failed,             \* failed / failed_plates
    invalid,            \* invalid / invalid_plates: plate -> reason (NoReason = absent)
    txStatus,           \* pg: uncommitted ds_status writes of the run ("" = none)
    txReason,           \* pg: uncommitted ds_motivo_erro writes of the run
    txRows,             \* pg: uncommitted downstream inserts of the run
    now,                \* time.time()
    request_timestamps, \* rate-limiter window of each run
    last_request_time,  \* sf: last_request_time (-1 = None)
    dispatched,         \* times at which each run sent a request to the provider
    called,             \* plates for which each run reached the provider
    wrote,              \* plates for which each run issued a terminal status write
    backoffs,           \* backoff sleeps taken for the current plate
    total_429,          \* 429 answers received by the run
    slow,               \* exchanges of the run that took MaxDuration
    lastItem,           \* record of the last plate a run finished processing
    client,             \* client exercised by the classification check
    response,           \* provider response drawn for the classification check
    outcome,            \* result of the client's _query_once on response
    matcher,            \* FIPE matcher exercised: "query_fipe" or "query_fipe_value"
    vehicle,            \* the vehicle the matcher looks up
    catalog,            \* the provider's models of the brand, each with its years
    value_answer,       \* the provider's answer to the valuation request
    first_years,        \* the provider's answer to the first request for years
    compatible,         \* the matcher's candidate list (compatible / compatible_models)
    fipe_data,          \* what the matcher returned
    fipe_calls,         \* provider requests the matcher issued, in order
    items,              \* rows of the work table per plate
    ingest_pc,          \* position of each ingestion run (main_plate_raw.main)
    df,                 \* plates an ingestion run extracted from the sources
    existing_plates,    \* plates an ingestion run read from the work table
    copied,             \* plates an ingestion run inserted, uncommitted
    ingestsLeft,        \* ingestion runs still to start
    fipe_status,        \* DS_STATUS of each vehicle row, as the connection of the run sees it
    fipe_reason,        \* DS_MOTIVO_ERRO of each vehicle row ("" stands for NULL)
    fipe_rows,          \* rows of the valuation table per vehicle key, as the connection sees them
    fipe_committed,     \* the committed DS_STATUS and valuation rows
    fipe_pc,            \* position of the run of main_fipe.main
    vehicles,           \* the batch of the run (get_pending_vehicles)
    fipe_idx,           \* 1-based position of process_vehicles in the batch
    fipe_results,       \* keys of the rows of results, in order
    fipe_failed,        \* keys of failed, in order
    fipe_invalid        \* invalid: vehicle key -> motivo ("" when absent)

vars == <<impl, timed, batch_size, answers, quota429, status, reason, attempts, insertedAt, details, pc, runsLeft,
          batch, readStatus, claimRows, rows_updated, idx, tries, results, failed, invalid,
          txStatus, txReason, txRows, now, request_timestamps, last_request_time,
          dispatched, called, wrote, backoffs, total_429, slow, lastItem,
          client, response, outcome,
          matcher, vehicle, catalog, value_answer, first_years, compatible, fipe_data,
          fipe_calls,
          items, ingest_pc, df, existing_plates, copied, ingestsLeft,
          fipe_status, fipe_reason, fipe_rows, fipe_committed, fipe_pc, vehicles, fipe_idx,
          fipe_results, fipe_failed, fipe_invalid>>

storeVars  == <<status, reason, attempts, details>>
txVars     == <<txStatus, txReason, txRows>>
limitVars  == <<now, request_timestamps, last_request_time, dispatched>>
loopVars   == <<idx, tries, results, failed, invalid, called, backoffs, total_429, slow, lastItem>>
clientVars == <<client, response, outcome>>
matcherVars ==
    <<matcher, vehicle, catalog, value_answer, first_years, compatible, fipe_data, fipe_calls>>
ingestVars == <<items, ingest_pc, df, existing_plates, copied, ingestsLeft>>
fipeVars ==
    <<fipe_status, fipe_reason, fipe_rows, fipe_committed, fipe_pc, vehicles, fipe_idx,
      fipe_results, fipe_failed, fipe_invalid>>
constVars  == <<impl, timed, batch_size, answers, quota429, insertedAt>>

----------------------------------------------------------------------------
(* Bounds of the model *)

Runs == {1, 2}

\* flow parameter batch_size used by the overlapping-runs specification
BatchLimit == 1

\* flow parameter batch_size used by the single-batch timing specification
TimedBatchLimit == 6

\* invocations of the flow that may be started in total
MaxRuns == 2

\* duration of a slow provider exchange in the timing specification (the
\* others take no time) and number of slow exchanges in one invocation
MaxDuration == 12
MaxSlow == 1

\* flow parameter batch_size used by the retry specification
RetryBatchLimit == 2

\* largest batch_size and largest dt_insercao of the pending-read specification
PendingLimit == 2
MaxStamp == 2

\* 429 answers the provider gives to one invocation in the retry specification
\* and in the timing specification
Max429 == 5
BatchMax429 == 1

----------------------------------------------------------------------------
(* Plates.  A plate is a string of the work table; PlateChars gives its    *)
(* characters so that validate_plate can be computed.                      *)

Keys == {"ABC1234", "abc-1d23", "AB1234", "DEF5678", "ABC1D23", "JKL2345", "MNO6P78"}

PlateChars(k) ==
    CASE k = "ABC1234"  -> <<"A", "B", "C", "1", "2", "3", "4">>
      [] k = "abc-1d23" -> <<"a", "b", "c", "-", "1", "d", "2", "3">>
      [] k = "AB1234"   -> <<"A", "B", "1", "2", "3", "4">>
      [] k = "DEF5678"  -> <<"D", "E", "F", "5", "6", "7", "8">>
      [] k = "ABC1D23"  -> <<"A", "B", "C", "1", "D", "2", "3">>
      [] k = "JKL2345"  -> <<"J", "K", "L", "2", "3", "4", "5">>
      [] k = "MNO6P78"  -> <<"M", "N", "O", "6", "P", "7", "8">>

\* rows of the work table in the overlapping-runs specification
StoreKeys == {"ABC1234", "abc-1d23"}

\* rows of the work table in the pending-read specification
PendingKeys == {"ABC1234", "DEF5678", "ABC1D23", "JKL2345"}

\* rows of the work table in the single-batch timing specification
TimedKeys == {"ABC1234", "AB1234", "DEF5678", "ABC1D23", "JKL2345", "MNO6P78"}

Upper == {"A", "B", "C", "D", "E", "F", "G", "H", "I", "J", "K", "L", "M", "N", "O", "P"}
Digit == {"0", "1", "2", "3", "4", "5", "6", "7", "8", "9"}

upper(c) ==
    CASE c = "a" -> "A" [] c = "b" -> "B" [] c = "c" -> "C" [] c = "d" -> "D"
      [] c = "f" -> "F" [] c = "g" -> "G" [] c = "l" -> "L" [] c = "o" -> "O"
      [] OTHER -> c

\* plate.replace("-", "").replace(" ", "").upper().strip()
plate_clean(k) ==
    LET cs == PlateChars(k)
        kept == SelectSeq(cs, LAMBDA c : c # "-" /\ c # " ")
    IN  [i \in 1..Len(kept) |-> upper(kept[i])]

\* the old pattern searched anywhere in the plate, one letter short
pattern_old_loose(s) ==
    \E i \in 1..Len(s) :
        /\ i + 5 <= Len(s)
        /\ \A j \in i..(i + 1) : s[j] \in Upper
        /\ \A j \in (i + 2)..(i + 5) : s[j] \in Digit

\* r'^[A-Z]{3}\d{4}$'
pattern_old(s) ==
    /\ Len(s) = 7
    /\ \A i \in 1..3 : s[i] \in Upper
    /\ \A i \in 4..7 : s[i] \in Digit

\* r'^[A-Z]{3}\d[A-Z]\d{2}$'
pattern_mercosul(s) ==
    /\ Len(s) = 7
    /\ \A i \in 1..3 : s[i] \in Upper
    /\ s[4] \in Digit
    /\ s[5] \in Upper
    /\ \A i \in 6..7 : s[i] \in Digit

\* TRUE iff validate_plate returns a normalised plate (not None)
validate_plate(k) ==
    LET s == plate_clean(k) IN pattern_old(s) \/ pattern_mercosul(s)

----------------------------------------------------------------------------
(* get_pending_plates *)

\* the pending read without the rows left in Processing
Pending_new_error == {k \in Keys : status[k] \in {"E", "N"}}

Pending == {k \in Keys : status[k] \in {"P", "E", "N"}}

\* CASE ds_status WHEN 'P' THEN 1 WHEN 'E' THEN 2 WHEN 'N' THEN 3 END
StatusRank(s) == CASE s = "P" -> 1 [] s = "E" -> 2 [] s = "N" -> 3 [] OTHER -> 4

\* the ORDER BY with dt_insercao ascending
SortsBefore_asc(a, b) ==
    \/ StatusRank(status[a]) < StatusRank(status[b])
    \/ /\ StatusRank(status[a]) = StatusRank(status[b])
       /\ insertedAt[a] < insertedAt[b]

\* ORDER BY CASE ..., dt_insercao DESC : a sorts strictly before b
SortsBefore(a, b) ==
    \/ StatusRank(status[a]) < StatusRank(status[b])
    \/ /\ StatusRank(status[a]) = StatusRank(status[b])
       /\ insertedAt[a] > insertedAt[b]

RECURSIVE OrderedRows(_)
\* every order of the rows of S that the ORDER BY permits (ties in any order)
OrderedRows(S) ==
    IF S = {} THEN {<<>>}
    ELSE UNION { { <<m>> \o t : t \in OrderedRows(S \ {m}) } :
                 m \in {x \in S : \A y \in S : ~SortsBefore(y, x)} }

Prefix(s, n) == SubSeq(s, 1, IF Len(s) < n THEN Len(s) ELSE n)

\* the possible results of the SELECT ... ORDER BY ... LIMIT batch_size
get_pending_plates(limit) == { Prefix(s, limit) : s \in OrderedRows(Pending) }

SeqSet(s) == {s[i] : i \in 1..Len(s)}

----------------------------------------------------------------------------
(* Provider responses and the three clients.                               *)
(* A reason string such as "404_NOT_FOUND" is the record                   *)
(* [code |-> 404, text |-> "NOT_FOUND"]; code = 0 when the string carries  *)
(* no status code.                                                         *)

Reason(c, t) == [code |-> c, text |-> t]
NoReason == Reason(0, "")

\* results of a _query_once / query_plate_api call
Data          == [kind |-> "data",    reason |-> NoReason]
RateLimited   == [kind |-> "429",     reason |-> NoReason]
None          == [kind |-> "none",    reason |-> NoReason]
Invalid(c, t) == [kind |-> "invalid", reason |-> Reason(c, t)]

\* status codes; 0 stands for a request that raised (timeout, connection error)
Codes == {0, 200, 400, 401, 403, 404, 429, 500, 503}
GetCodes == {200, 404, 429, 502}

\* code   : status code of the POST
\* json   : the body parses as a JSON object
\* flag   : body "success" (Placamaster) / "status" (AnyCar) is truthy
\* data   : body "data" (Placamaster) / "id" (AnyCar) is truthy
\* error  : the body has an "error" entry (Placamaster, 400)
\* marca, modelo : the vehicle data carries a brand / a model
\* gcode, gjson, gflag, gdata, found : the AnyCar GET: status code, body parses,
\*          "status" truthy, "data" truthy, data "encontrado" truthy
\* cor    : type of the vehicle data's "cor": "text", or "number"
PostResponses ==
    [code : Codes, json : BOOLEAN, flag : BOOLEAN, data : BOOLEAN, error : BOOLEAN,
     marca : BOOLEAN, modelo : BOOLEAN,
     gcode : {200}, gjson : {TRUE}, gflag : {TRUE}, gdata : {TRUE}, found : {TRUE},
     cor : {"text"}]

AnyCarResponses ==
    [code : Codes, json : BOOLEAN, flag : BOOLEAN, data : BOOLEAN, error : {FALSE},
     marca : BOOLEAN, modelo : BOOLEAN,
     gcode : GetCodes, gjson : BOOLEAN, gflag : BOOLEAN, gdata : BOOLEAN, found : BOOLEAN,
     cor : {"text"}]

\* PlacaAPIClient._query_once
PlacaAPIClient_query_once(resp) ==
    IF resp.code = 0 THEN None
    ELSE IF resp.code = 400 THEN
        IF ~resp.json THEN None
        ELSE IF resp.error THEN Invalid(0, "BODY_ERROR")
        ELSE Invalid(400, "INVALID_DATA")
    ELSE IF resp.code = 404 THEN Invalid(404, "NOT_FOUND")
    ELSE IF resp.code = 403 THEN Invalid(403, "FORBIDDEN")
    ELSE IF resp.code >= 500 THEN Invalid(resp.code, "SERVER_ERROR")
    ELSE IF resp.code = 200 THEN
        IF ~resp.json THEN None
        ELSE IF resp.flag /\ resp.data THEN
            IF resp.marca \/ resp.modelo THEN Data ELSE Invalid(0, "EMPTY_DATA")
        ELSE None
    ELSE IF resp.code = 429 THEN RateLimited
    ELSE None

\* AnyCarAPIClient._query_once
AnyCarAPIClient_query_once(resp) ==
    IF resp.code = 0 THEN None
    ELSE IF resp.code = 400 THEN Invalid(400, "INVALID_DATA")
    ELSE IF resp.code = 404 THEN Invalid(404, "NOT_FOUND")
    ELSE IF resp.code = 403 THEN Invalid(403, "FORBIDDEN")
    ELSE IF resp.code >= 500 THEN Invalid(resp.code, "SERVER_ERROR")
    ELSE IF resp.code = 429 THEN RateLimited
    ELSE IF resp.code = 200 THEN
        IF ~resp.json THEN None
        ELSE IF ~resp.flag \/ ~resp.data THEN Invalid(0, "NO_ID_RETURNED")
        ELSE IF resp.gcode = 200 THEN
            IF ~resp.gjson THEN None
            ELSE IF resp.gflag /\ resp.gdata THEN
                IF ~resp.found THEN Invalid(0, "NOT_FOUND_IN_DATABASE") ELSE Data
            ELSE Invalid(0, "EMPTY_DATA")
        ELSE IF resp.gcode = 429 THEN RateLimited
        ELSE IF resp.gcode >= 500 THEN Invalid(resp.gcode, "GET_SERVER_ERROR")
        ELSE None
    ELSE None

\* query_plate_api that knows of 500 alone among the server errors
query_plate_api_500_only(resp) ==
    IF resp.code = 0 THEN None
    ELSE IF resp.code = 404 THEN Invalid(404, "NOT_FOUND")
    ELSE IF resp.code = 403 THEN Invalid(403, "FORBIDDEN")
    ELSE IF resp.code = 500 THEN Invalid(resp.code, "SERVER_ERROR")
    ELSE IF resp.code = 200 THEN
        IF ~resp.json THEN None
        ELSE IF resp.flag /\ resp.data THEN
            IF resp.marca \/ resp.modelo THEN Data ELSE Invalid(0, "EMPTY_DATA")
        ELSE None
    ELSE IF resp.code = 429 THEN RateLimited
    ELSE None

\* query_plate_api, after the plate has passed validate_and_normalize_plate
query_plate_api(resp) ==
    IF resp.code = 0 THEN None
    ELSE IF resp.code = 404 THEN Invalid(404, "NOT_FOUND")
    ELSE IF resp.code = 403 THEN Invalid(403, "FORBIDDEN")
    ELSE IF resp.code >= 500 THEN Invalid(resp.code, "SERVER_ERROR")
    ELSE IF resp.code = 200 THEN
        IF ~resp.json THEN None
        ELSE IF resp.flag /\ resp.data THEN
            IF resp.marca \/ resp.modelo THEN Data ELSE Invalid(0, "EMPTY_DATA")
        ELSE None
    ELSE IF resp.code = 429 THEN RateLimited
    ELSE None

Clients == {"PlacaAPIClient", "AnyCarAPIClient", "query_plate_api"}

ResponsesOf(c) == IF c = "AnyCarAPIClient" THEN AnyCarResponses ELSE PostResponses

QueryOnce(c, resp) ==
    CASE c = "PlacaAPIClient"  -> PlacaAPIClient_query_once(resp)
      [] c = "AnyCarAPIClient" -> AnyCarAPIClient_query_once(resp)
      [] c = "query_plate_api" -> query_plate_api(resp)

\* the client each pipeline calls
ClientOf(i) == IF i = "pg" THEN "AnyCarAPIClient" ELSE "query_plate_api"

Resp(c, j, f, d, m) ==
    [code |-> c, json |-> j, flag |-> f, data |-> d, error |-> FALSE,
     marca |-> m, modelo |-> m,
     gcode |-> 200, gjson |-> TRUE, gflag |-> TRUE, gdata |-> TRUE, found |-> TRUE,
     cor |-> "text"]

\* responses of the flow specifications: a vehicle, 404, 400, 429 and a 200
\* whose body is not the expected object
Vehicle200 == Resp(200, TRUE, TRUE, TRUE, TRUE)
NotFound404 == Resp(404, FALSE, FALSE, FALSE, FALSE)
BadRequest400 == Resp(400, FALSE, FALSE, FALSE, FALSE)
TooMany429 == Resp(429, FALSE, FALSE, FALSE, FALSE)
Garbled200 == Resp(200, FALSE, FALSE, FALSE, FALSE)

\* a vehicle whose "cor" is a number
NumericColor200 == [Vehicle200 EXCEPT !.cor = "number"]

\* an exception leaving the item loop
Raised == [kind |-> "raised", reason |-> NoReason]

\* "DS_COR": color.upper() if color else None, evaluated for a result that
\* is vehicle data: a colour that is no string raises AttributeError
row_of(vd, resp) == IF vd.kind = "data" /\ resp.cor # "text" THEN Raised ELSE vd

----------------------------------------------------------------------------
(* Rate limiter and retry constants *)

REQUESTS_PER_WINDOW == 5
WINDOW_DURATION == 60
SAFETY_MARGIN == 3
MIN_INTERVAL == 10
MAX_RETRIES == 5
RETRY_BACKOFF == 15
BACKOFF_STEP == 5

\* time.sleep(d): advances the clock only in the timing specification
Sleep(d) == IF timed THEN d ELSE 0

\* duration of one HTTP exchange of run r
Durations(r) == IF timed /\ slow[r] < MaxSlow THEN {0, MaxDuration} ELSE {0}

\* random.uniform(1, 3) between the AnyCar POST and GET
GetSleeps == IF timed THEN {1, 3} ELSE {0}

\* [t for t in request_timestamps if current_time - t < WINDOW_DURATION]
Purge(ts, t) == SelectSeq(ts, LAMBDA x : t - x < WINDOW_DURATION)

\* a retry loop without its bound
retry_again_always(kind, n) == kind = "429"

\* "if result.get("status") == 429: attempts += 1; if attempts < MAX_RETRIES":
\* the loop sleeps and asks again
retry_again(kind, n) == kind = "429" /\ n < MAX_RETRIES

\* the backoff without its growth per attempt
backoff_time_flat(n) == RETRY_BACKOFF + BACKOFF_STEP

\* backoff_time = RETRY_BACKOFF + (attempts * 5)
backoff_time(n) == RETRY_BACKOFF + (n * BACKOFF_STEP)

\* REGRA 2-3 alone, without the minimum interval of REGRA 1
rate_limit_gate_window_only(r) ==
    LET t1   == now
        w1   == Purge(request_timestamps[r], t1)
        full == Len(w1) >= REQUESTS_PER_WINDOW
        wait == WINDOW_DURATION + SAFETY_MARGIN - (t1 - w1[1])
        t2   == IF full /\ wait > 0 THEN t1 + Sleep(wait) ELSE t1
        w2   == IF full THEN Tail(w1) ELSE w1
    IN  [t |-> t2, w |-> w2]

\* process_plate_batch, REGRA 1-3 at the top of the plate loop: the time at
\* which the plate's first request leaves and the window it leaves behind
rate_limit_gate(r) ==
    LET t0   == now
        last == last_request_time[r]
        t1   == IF last # -1 /\ t0 - last < MIN_INTERVAL
                THEN t0 + Sleep(MIN_INTERVAL - (t0 - last)) ELSE t0
        w1   == Purge(request_timestamps[r], t1)
        full == Len(w1) >= REQUESTS_PER_WINDOW
        wait == WINDOW_DURATION + SAFETY_MARGIN - (t1 - w1[1])
        t2   == IF full /\ wait > 0 THEN t1 + Sleep(wait) ELSE t1
        w2   == IF full THEN Tail(w1) ELSE w1
    IN  [t |-> t2, w |-> w2]

\* the last six dispatch times are kept
Recent(s) == IF Len(s) > REQUESTS_PER_WINDOW + 1 THEN Tail(s) ELSE s

NoItem ==
    [plate |-> "", requests |-> 0, last |-> "", backoffs |-> <<>>, outcome |-> ""]

----------------------------------------------------------------------------
(* The flows: main (main_details.py) and vehicle_details_api_to_snowflake  *)

NoWrites == [k \in Keys |-> ""]
NoReasons == [k \in Keys |-> NoReason]
NoRows == [k \in Keys |-> 0]

\* pg: a row of ks carries an uncommitted update of another run (row lock)
Locked(r, ks) == \E r2 \in Runs \ {r} : \E k \in ks : txStatus[r2][k] # ""

InvalidKeys(r) == {k \in Keys : invalid[r][k] # NoReason}

\* the locals of a flow invocation that has returned or raised
Return(r) ==
    /\ pc' = [pc EXCEPT ![r] = "idle"]
    /\ idx' = [idx EXCEPT ![r] = 1]
    /\ tries' = [tries EXCEPT ![r] = 0]
    /\ results' = [results EXCEPT ![r] = {}]
    /\ failed' = [failed EXCEPT ![r] = {}]
    /\ invalid' = [invalid EXCEPT ![r] = NoReasons]
    /\ request_timestamps' = [request_timestamps EXCEPT ![r] = <<>>]
    /\ last_request_time' = [last_request_time EXCEPT ![r] = -1]
    /\ backoffs' = [backoffs EXCEPT ![r] = <<>>]
    /\ total_429' = [total_429 EXCEPT ![r] = 0]
    /\ slow' = [slow EXCEPT ![r] = 0]
    /\ lastItem' = [lastItem EXCEPT ![r] = NoItem]
    /\ batch' = [batch EXCEPT ![r] = <<>>]
    /\ readStatus' = [readStatus EXCEPT ![r] = NoWrites]
    /\ claimRows' = [claimRows EXCEPT ![r] = {}]
    /\ rows_updated' = [rows_updated EXCEPT ![r] = {}]
    /\ dispatched' = [dispatched EXCEPT ![r] = <<>>]
    /\ called' = [called EXCEPT ![r] = {}]
    /\ wrote' = [wrote EXCEPT ![r] = {}]
    /\ UNCHANGED now

\* get_pending_plates, then "if not plates: return"
GetPending(r) ==
    /\ pc[r] = "idle"
    /\ \A r2 \in Runs : r2 < r => pc[r2] # "idle"
    /\ runsLeft > 0
    /\ runsLeft' = runsLeft - 1
    /\ \E b \in get_pending_plates(batch_size) \cup {<<>>} :
        /\ batch' = [batch EXCEPT ![r] = b]
        /\ readStatus' = [readStatus EXCEPT ![r] =
                           [k \in Keys |-> IF k \in SeqSet(b) THEN status[k] ELSE ""]]
        /\ pc' = [pc EXCEPT ![r] = IF b = <<>> THEN "idle" ELSE "claim"]
    /\ claimRows' = [claimRows EXCEPT ![r] = {}]
    /\ rows_updated' = [rows_updated EXCEPT ![r] = {}]
    /\ idx' = [idx EXCEPT ![r] = 1]
    /\ tries' = [tries EXCEPT ![r] = 0]
    /\ results' = [results EXCEPT ![r] = {}]
    /\ failed' = [failed EXCEPT ![r] = {}]
    /\ invalid' = [invalid EXCEPT ![r] = NoReasons]
    /\ request_timestamps' = [request_timestamps EXCEPT ![r] = <<>>]
    /\ last_request_time' = [last_request_time EXCEPT ![r] = -1]
    /\ dispatched' = [dispatched EXCEPT ![r] = <<>>]
    /\ called' = [called EXCEPT ![r] = {}]
    /\ wrote' = [wrote EXCEPT ![r] = {}]
    /\ backoffs' = [backoffs EXCEPT ![r] = <<>>]
    /\ total_429' = [total_429 EXCEPT ![r] = 0]
    /\ slow' = [slow EXCEPT ![r] = 0]
    /\ lastItem' = [lastItem EXCEPT ![r] = NoItem]
    /\ UNCHANGED <<storeVars, txVars, now, constVars, clientVars, matcherVars, ingestVars, fipeVars>>

\* main_details.update_status(conn, plates, 'P', update_collection_date=True,
\* commit=True): the rows the UPDATE changes
update_status_P(ks) == ks

\* update_status_processing: the rows the UPDATE changes
update_status_processing(ks) == {k \in ks : status[k] = "N" \/ status[k] = "E"}

\* the claim of the batch, committed at once by both pipelines
Claim(r) ==
    /\ pc[r] = "claim"
    /\ LET ks   == SeqSet(batch[r])
           rows == IF impl = "pg" THEN update_status_P(ks)
                   ELSE update_status_processing(ks)
       IN  /\ impl = "pg" => ~Locked(r, ks)
           /\ status' = [k \in Keys |-> IF k \in rows THEN "P" ELSE status[k]]
           /\ attempts' = [k \in Keys |->
                             IF impl = "pg" /\ k \in rows THEN attempts[k] + 1
                             ELSE attempts[k]]
           /\ claimRows' = [claimRows EXCEPT ![r] = rows]
           /\ rows_updated' = [rows_updated EXCEPT ![r] = rows]
    /\ pc' = [pc EXCEPT ![r] = "process"]
    /\ UNCHANGED <<reason, details, txVars, runsLeft, batch, readStatus, wrote,
                   loopVars, limitVars, constVars, clientVars, matcherVars, ingestVars, fipeVars>>

\* the persist steps a flow takes for its partition: "if not df.empty",
\* "if invalid", "if failed", then the commit / the return
StageError(fl) == IF fl # {} THEN "mark_e" ELSE "commit"
StageInvalid(inv, fl) == IF inv # {} THEN "mark_i" ELSE StageError(fl)
StageInsert(res, inv, fl) == IF res # {} THEN "insert" ELSE StageInvalid(inv, fl)

\* a claimed-only variant: the provider is called for a plate only when the
\* run's claim counted it
CallsProvider_claimed(r, plate) == validate_plate(plate) /\ plate \in claimRows[r]

\* the item loop calls the provider for every plate of the batch that passes
\* the format check, whatever the claim's row count was
CallsProvider(r, plate) == validate_plate(plate)

\* end of the work on one plate of the batch
Finish(r, plate, n, kind, out, network) ==
    /\ idx' = [idx EXCEPT ![r] = idx[r] + 1]
    /\ tries' = [tries EXCEPT ![r] = 0]
    /\ backoffs' = [backoffs EXCEPT ![r] = <<>>]
    /\ lastItem' = [lastItem EXCEPT ![r] =
                      [plate |-> plate, requests |-> n, last |-> kind,
                       backoffs |-> backoffs[r], outcome |-> out]]
    /\ called' = [called EXCEPT ![r] = IF network THEN called[r] \cup {plate} ELSE called[r]]
    /\ pc' = [pc EXCEPT ![r] =
                IF kind = "raised" THEN "raise"
                ELSE IF idx[r] + 1 > Len(batch[r])
                THEN StageInsert(results'[r], {k \in Keys : invalid'[r][k] # NoReason},
                                 failed'[r])
                ELSE "process"]

\* the partition of the batch after a plate ended with result vd
Partition(r, plate, vd) ==
    /\ results' = [results EXCEPT ![r] =
                     IF vd.kind = "data" THEN results[r] \cup {plate} ELSE results[r]]
    /\ invalid' = [invalid EXCEPT ![r][plate] =
                     IF vd.kind = "invalid" THEN vd.reason ELSE invalid[r][plate]]
    /\ failed' = [failed EXCEPT ![r] =
                     IF vd.kind \in {"none", "429"} THEN failed[r] \cup {plate} ELSE failed[r]]

OutcomeOf(vd) ==
    CASE vd.kind = "data" -> "S" [] vd.kind = "invalid" -> "I"
      [] vd.kind = "raised" -> "" [] OTHER -> "E"

Dispatch(r, t, network) ==
    dispatched' = [dispatched EXCEPT ![r] =
                     IF network /\ timed THEN Recent(Append(dispatched[r], t))
                     ELSE dispatched[r]]

\* process_plate_batch: one pass of "while attempts < MAX_RETRIES" for the
\* current plate, preceded by REGRA 1-3 when it is the plate's first pass
SfRequest(r) ==
    /\ impl = "sf"
    /\ pc[r] = "process"
    /\ LET plate == batch[r][idx[r]]
           gate  == IF tries[r] = 0 THEN rate_limit_gate(r)
                    ELSE [t |-> now, w |-> request_timestamps[r]]
           request_time == gate.t
           network == CallsProvider(r, plate)
       IN  \E resp \in answers, d \in Durations(r) :
            LET vd == IF network THEN row_of(query_plate_api(resp), resp)
                      ELSE Invalid(0, "INVALID_PLATE_FORMAT")
                after == request_time + (IF network THEN d ELSE 0)
                w3 == Append(gate.w, request_time)
                n  == tries[r] + 1
            IN  /\ vd.kind = "429" => total_429[r] < quota429
                /\ total_429' = [total_429 EXCEPT ![r] = IF vd.kind = "429" THEN @ + 1 ELSE @]
                /\ slow' = [slow EXCEPT ![r] = IF network /\ d > 0 THEN @ + 1 ELSE @]
                /\ Dispatch(r, request_time, network)
                /\ last_request_time' = [last_request_time EXCEPT ![r] = request_time]
                /\ IF retry_again(vd.kind, n)
                   THEN /\ now' = after + Sleep(backoff_time(n))
                        /\ request_timestamps' =
                             [request_timestamps EXCEPT ![r] = Purge(w3, now')]
                        /\ tries' = [tries EXCEPT ![r] = n]
                        /\ backoffs' = [backoffs EXCEPT ![r] =
                                          Append(backoffs[r], backoff_time(n))]
                        /\ called' = [called EXCEPT ![r] = called[r] \cup {plate}]
                        /\ UNCHANGED <<idx, results, failed, invalid, lastItem, pc>>
                   ELSE /\ now' = after
                        /\ request_timestamps' = [request_timestamps EXCEPT ![r] = w3]
                        /\ Partition(r, plate, vd)
                        /\ Finish(r, plate, IF network THEN n ELSE 0, vd.kind,
                                  OutcomeOf(vd), network)
    /\ UNCHANGED <<storeVars, txVars, runsLeft, batch, readStatus, claimRows, rows_updated, wrote,
                   constVars, clientVars, matcherVars, ingestVars, fipeVars>>

\* process_plates: the format check of the current plate and, when it passes,
\* one pass of the retry loop of AnyCarAPIClient.query_plate
PgRequest(r) ==
    /\ impl = "pg"
    /\ pc[r] = "process"
    /\ LET plate == batch[r][idx[r]]
           n == tries[r] + 1
       IN  IF ~CallsProvider(r, plate)
           THEN /\ Partition(r, plate, Invalid(0, "INVALID_PLATE_FORMAT"))
                /\ Finish(r, plate, 0, "invalid", "I", FALSE)
                /\ UNCHANGED <<limitVars, total_429, slow>>
           ELSE \E resp \in answers, d \in Durations(r), s \in GetSleeps :
                LET vd == row_of(AnyCarAPIClient_query_once(resp), resp)
                    get == resp.code = 200 /\ resp.json /\ resp.flag /\ resp.data
                    after == now + d + (IF get THEN s ELSE 0)
                    w1 == IF tries[r] = 0 THEN Purge(request_timestamps[r], now)
                          ELSE request_timestamps[r]
                IN  /\ vd.kind = "429" => total_429[r] < quota429
                    /\ total_429' = [total_429 EXCEPT ![r] = IF vd.kind = "429" THEN @ + 1 ELSE @]
                    /\ slow' = [slow EXCEPT ![r] = IF d > 0 THEN @ + 1 ELSE @]
                    /\ Dispatch(r, now, TRUE)
                    /\ UNCHANGED last_request_time
                    /\ IF retry_again(vd.kind, n)
                       THEN /\ now' = after + Sleep(backoff_time(n))
                            /\ request_timestamps' = [request_timestamps EXCEPT ![r] = w1]
                            /\ tries' = [tries EXCEPT ![r] = n]
                            /\ backoffs' = [backoffs EXCEPT ![r] =
                                              Append(backoffs[r], backoff_time(n))]
                            /\ called' = [called EXCEPT ![r] = called[r] \cup {plate}]
                            /\ UNCHANGED <<idx, results, failed, invalid, lastItem, pc>>
                       ELSE /\ now' = after
                            /\ request_timestamps' =
                                 [request_timestamps EXCEPT ![r] = Append(w1, after)]
                            /\ Partition(r, plate, vd)
                            /\ Finish(r, plate, n, vd.kind, OutcomeOf(vd), TRUE)
    /\ UNCHANGED <<storeVars, txVars, runsLeft, batch, readStatus, claimRows, rows_updated, wrote,
                   constVars, clientVars, matcherVars, ingestVars, fipeVars>>

----------------------------------------------------------------------------
(* Persist phase *)

\* pg: an UPDATE of the open transaction: ds_status (and ds_motivo_erro when
\* reasons are given) of the rows ks, visible to others at the commit
update_status(r, ks, st, reasons) ==
    /\ ~Locked(r, ks)
    /\ rows_updated' = [rows_updated EXCEPT ![r] = ks]
    /\ txStatus' = [txStatus EXCEPT ![r] = [k \in Keys |-> IF k \in ks THEN st ELSE @[k]]]
    /\ txReason' = [txReason EXCEPT ![r] =
                      [k \in Keys |-> IF k \in ks /\ reasons # NoReasons
                                      THEN reasons[k] ELSE @[k]]]
    /\ UNCHANGED <<storeVars, txRows>>

\* sf: UPDATE ... SET DS_STATUS = st WHERE DS_PLACA IN ks AND DS_STATUS = 'P',
\* committed at once
update_status_guarded(r, ks, st, reasons) ==
    /\ rows_updated' = [rows_updated EXCEPT ![r] = {k \in ks : status[k] = "P"}]
    /\ status' = [k \in Keys |-> IF k \in ks /\ status[k] = "P" THEN st ELSE status[k]]
    /\ reason' = [k \in Keys |-> IF k \in ks /\ status[k] = "P" /\ reasons # NoReasons
                                 THEN reasons[k] ELSE reason[k]]
    /\ UNCHANGED <<attempts, details, txVars>>

\* insert_plate_data (pg, uncommitted) / the INSERT of insert_data_snowflake
\* (sf, committed): one downstream row per plate of df
Insert(r) ==
    /\ pc[r] = "insert"
    /\ IF impl = "pg"
       THEN /\ txRows' = [txRows EXCEPT ![r] =
                            [k \in Keys |-> IF k \in results[r] THEN 1 ELSE 0]]
            /\ UNCHANGED <<storeVars, txStatus, txReason>>
       ELSE /\ details' = [k \in Keys |->
                             IF k \in results[r] THEN details[k] + 1 ELSE details[k]]
            /\ UNCHANGED <<status, reason, attempts, txVars>>
    /\ pc' = [pc EXCEPT ![r] = "mark_s"]
    /\ UNCHANGED <<runsLeft, batch, readStatus, claimRows, rows_updated, wrote, loopVars, limitVars,
                   constVars, clientVars, matcherVars, ingestVars, fipeVars>>

\* update_status(conn, df['DS_PLACA'].tolist(), 'S') / the UPDATE of
\* insert_data_snowflake
MarkSuccess(r) ==
    /\ pc[r] = "mark_s"
    /\ IF impl = "pg" THEN update_status(r, results[r], "S", NoReasons)
       ELSE update_status_guarded(r, results[r], "S", NoReasons)
    /\ wrote' = [wrote EXCEPT ![r] = wrote[r] \cup results[r]]
    /\ pc' = [pc EXCEPT ![r] = StageInvalid(InvalidKeys(r), failed[r])]
    /\ UNCHANGED <<runsLeft, batch, readStatus, claimRows, loopVars, limitVars,
                   constVars, clientVars, matcherVars, ingestVars, fipeVars>>

\* update_status(conn, list(invalid.keys()), 'I', invalid) / update_status_invalid
MarkInvalid(r) ==
    /\ pc[r] = "mark_i"
    /\ IF impl = "pg" THEN update_status(r, InvalidKeys(r), "I", invalid[r])
       ELSE update_status_guarded(r, InvalidKeys(r), "I", invalid[r])
    /\ wrote' = [wrote EXCEPT ![r] = wrote[r] \cup InvalidKeys(r)]
    /\ pc' = [pc EXCEPT ![r] = StageError(failed[r])]
    /\ UNCHANGED <<runsLeft, batch, readStatus, claimRows, loopVars, limitVars,
                   constVars, clientVars, matcherVars, ingestVars, fipeVars>>

\* update_status(conn, failed, 'E') / update_status_error
MarkError(r) ==
    /\ pc[r] = "mark_e"
    /\ IF impl = "pg" THEN update_status(r, failed[r], "E", NoReasons)
       ELSE update_status_guarded(r, failed[r], "E", NoReasons)
    /\ wrote' = [wrote EXCEPT ![r] = wrote[r] \cup failed[r]]
    /\ pc' = [pc EXCEPT ![r] = "commit"]
    /\ UNCHANGED <<runsLeft, batch, readStatus, claimRows, loopVars, limitVars,
                   constVars, clientVars, matcherVars, ingestVars, fipeVars>>

\* main_details.main: conn.commit() for the whole batch, then the return;
\* the Snowflake flow, whose statements are committed already, only returns
\* (the overlay of its run is empty)
Commit(r) ==
    /\ pc[r] = "commit"
    /\ status' = [k \in Keys |-> IF txStatus[r][k] # "" THEN txStatus[r][k] ELSE status[k]]
    /\ reason' = [k \in Keys |->
                    IF txReason[r][k] # NoReason THEN txReason[r][k] ELSE reason[k]]
    /\ details' = [k \in Keys |-> details[k] + txRows[r][k]]
    /\ txStatus' = [txStatus EXCEPT ![r] = NoWrites]
    /\ txReason' = [txReason EXCEPT ![r] = NoReasons]
    /\ txRows' = [txRows EXCEPT ![r] = NoRows]
    /\ Return(r)
    /\ UNCHANGED <<attempts, runsLeft, constVars, clientVars, matcherVars, ingestVars, fipeVars>>

\* a rollback that keeps what the open transaction wrote
rollback_keeps_writes(r) ==
    /\ status' = [k \in Keys |-> IF txStatus[r][k] # "" THEN txStatus[r][k] ELSE status[k]]
    /\ reason' = [k \in Keys |->
                    IF txReason[r][k] # NoReason THEN txReason[r][k] ELSE reason[k]]
    /\ details' = [k \in Keys |-> details[k] + txRows[r][k]]
    /\ txStatus' = [txStatus EXCEPT ![r] = NoWrites]
    /\ txReason' = [txReason EXCEPT ![r] = NoReasons]
    /\ txRows' = [txRows EXCEPT ![r] = NoRows]
    /\ UNCHANGED attempts

\* conn.rollback(): the uncommitted statements of the run are discarded
rollback(r) ==
    /\ txStatus' = [txStatus EXCEPT ![r] = NoWrites]
    /\ txReason' = [txReason EXCEPT ![r] = NoReasons]
    /\ txRows' = [txRows EXCEPT ![r] = NoRows]
    /\ UNCHANGED storeVars

\* an exception after the pending read (a store failure, or an exception
\* leaving the item loop): main_details rolls the open transaction back and
\* re-raises; the Snowflake flow re-raises, what its statements committed
\* stays
Fail(r) ==
    /\ pc[r] \in {"claim", "process", "raise", "insert", "mark_s", "mark_i", "mark_e",
                 "commit"}
    /\ rollback(r)
    /\ Return(r)
    /\ UNCHANGED <<runsLeft, constVars, clientVars, matcherVars, ingestVars, fipeVars>>

----------------------------------------------------------------------------
(* The FIPE matcher: main_fipe.query_fipe and                               *)
(* vehicle_fipe_to_snowflake.query_fipe_value                               *)

Matchers == {"query_fipe", "query_fipe_value"}

\* brands of the vehicles looked up; "LADA" is mapped by the flow's table only
Brands == {"VW", "vw", "LADA", "TESLA"}

\* VehicleRecord.brand_upper
brand_upper(b) == IF b = "vw" THEN "VW" ELSE b

\* BRAND_CODES of FipeAPIClient, on Brands
BRAND_CODES_client == [b \in {"VW"} |-> "59"]

\* BRAND_CODES of vehicle_fipe_to_snowflake, on Brands
BRAND_CODES_flow == [b \in {"VW", "LADA"} |-> IF b = "VW" THEN "59" ELSE "32"]

\* BRAND_CODES.get(...): "" stands for None
brand_code_of(m, b) ==
    IF m = "query_fipe"
    THEN IF brand_upper(b) \in DOMAIN BRAND_CODES_client
         THEN BRAND_CODES_client[brand_upper(b)] ELSE ""
    ELSE IF b \in DOMAIN BRAND_CODES_flow THEN BRAND_CODES_flow[b] ELSE ""

\* str.upper()
str_upper(s) == [i \in 1..Len(s) |-> upper(s[i])]

RECURSIVE Tokens(_, _)
Tokens(s, cur) ==
    LET done == IF cur = <<>> THEN <<>> ELSE <<cur>>
    IN  IF s = <<>> THEN done
        ELSE IF Head(s) = " " THEN done \o Tokens(Tail(s), <<>>)
        ELSE Tokens(Tail(s), Append(cur, Head(s)))

\* str.split()
split(s) == Tokens(s, <<>>)

\* keyword in label
In(kw, s) == \E i \in 1..(Len(s) - Len(kw) + 1) : SubSeq(s, i, i + Len(kw) - 1) = kw

\* model names of the vehicles: "gol", "GOL GL", "POLO GL", "KA GL", "KA", ""
ModelNames ==
    { <<"g", "o", "l">>,
      <<"G", "O", "L", " ", "G", "L">>,
      <<"P", "O", "L", "O", " ", "G", "L">>,
      <<"K", "A", " ", "G", "L">>,
      <<"K", "A">>,
      <<>> }

TargetYear == "2020"

Vehicles == [brand : Brands, model : ModelNames, year_model : {TargetYear}]

\* entries of a ConsultarAnoModelo answer: Value split at "-", Label split at
\* blanks
YearEntry(v, l) == [Value |-> v, Label |-> l]
Y2019 == YearEntry(<<"2019", "1">>, <<"2019", "Gasolina">>)
Y2020 == YearEntry(<<"2020", "1">>, <<"2020", "Gasolina">>)
Y2020NoFuel == YearEntry(<<"2020">>, <<"2020", "Diesel">>)

YearLists == { <<Y2019>>, <<Y2019, Y2020>>, <<Y2020NoFuel>> }

\* labels of the provider's models: "Gol", "GOL GL", "Golf", "POLO"
Labels ==
    { <<"G", "o", "l">>,
      <<"G", "O", "L", " ", "G", "L">>,
      <<"G", "o", "l", "f">>,
      <<"P", "O", "L", "O">> }

\* a model of a ConsultarModelos answer, with the answer ConsultarAnoModelo
\* gives for it; the label stands for the model's code (Value)
ProviderModels == [Label : Labels, years : YearLists]

\* the answers of ConsultarModelos: at most MaxModels models, labels distinct
MaxModels == 3

Catalogs ==
    UNION { { c \in [1..n -> ProviderModels] :
                \A i, j \in 1..n : i # j => c[i].Label # c[j].Label }
            : n \in 0..MaxModels }

\* answers of ConsultarValorComTodosParametros: a valuation, or "codigo": "2"
ValueAnswers == {"Valor", "codigo2"}

FipeCall(op, model) == [op |-> op, model |-> model]
NoModel == <<>>

NoMetadata ==
    [alternative_search |-> FALSE, original_model |-> NoModel,
     model_code |-> NoModel, year_fuel_code |-> <<>>]

\* what the matcher returns: None, {"_status": "I", "_motivo": ...}, or the
\* provider's valuation with "_metadata"
\* a failed lookup returned as an invalid vehicle
FipeNone_invalid == [kind |-> "I", motivo |-> "Erro", metadata |-> NoMetadata]

FipeNone == [kind |-> "None", motivo |-> "", metadata |-> NoMetadata]
FipeInvalid(motivo) == [kind |-> "I", motivo |-> motivo, metadata |-> NoMetadata]
FipeData(md) == [kind |-> "data", motivo |-> "", metadata |-> md]

Returns(cands, data, calls) == [compatible |-> cands, data |-> data, calls |-> calls]

\* [m for m in models if all(k in m["Label"].upper() for k in keywords)]
compatible_all(models, keywords) ==
    SelectSeq(models, LAMBDA m :
        \A j \in 1..Len(keywords) : In(keywords[j], str_upper(m.Label)))

\* [m for m in models if keyword in m["Label"].upper()]
compatible_one(models, keyword) ==
    SelectSeq(models, LAMBDA m : In(keyword, str_upper(m.Label)))

\* every keyword in turn until one has models
compatible_any_keyword(models, keywords) ==
    LET hits == {j \in 1..Len(keywords) : compatible_one(models, keywords[j]) # <<>>}
    IN  IF hits = {} THEN <<>>
        ELSE compatible_one(models, keywords[CHOOSE j \in hits : \A h \in hits : j <= h])

\* query_fipe: all keywords, else the first keyword
compatible_query_fipe(models, keywords) ==
    LET all_kw == compatible_all(models, keywords)
    IN  IF all_kw = <<>> /\ keywords # <<>>
        THEN compatible_one(models, keywords[1])
        ELSE all_kw

\* query_fipe_value: all keywords, else the keywords one after the other
compatible_query_fipe_value(models, keywords) ==
    LET all_kw == compatible_all(models, keywords)
    IN  IF all_kw = <<>> /\ Len(keywords) > 0
        THEN compatible_any_keyword(models, keywords)
        ELSE all_kw

\* the candidate whose years are fetched first, picking the first of the list
found_model_first(cands) == cands[1]

\* found_model = compatible[-1]
found_model(cands) == cands[Len(cands)]

\* y["Value"].split("-")[0] if "-" in y["Value"] else y["Label"].split()[0]
year_value(y) == IF Len(y.Value) > 1 THEN y.Value[1] ELSE y.Label[1]

compatible_years(years, year_str) ==
    SelectSeq(years, LAMBDA y : year_value(y) = year_str)

YearCalls(cands, n) ==
    [i \in 1..n |-> FipeCall("ConsultarAnoModelo", cands[i].Label)]

\* what the first ConsultarAnoModelo request of a lookup is answered with: the
\* years of the model, an empty list, or a status other than 200; the
\* requests for the variants that follow are answered with the years
FirstFetches == {"ok", "empty", "error"}

\* the years the lookup has after its first request: get_years returns [] for
\* a status other than 200
first_years_of(primary, ff) == IF ff = "ok" THEN primary.years ELSE <<>>

\* steps 3 and 4 of query_fipe, ETAPA 2 and 3 of query_fipe_value: the years
\* of the last candidate, the years of the variants, the value
resolve(m, veh, cands, value, ff) ==
    LET primary  == found_model(cands)
        first    == <<FipeCall("ConsultarModelos", NoModel),
                      FipeCall("ConsultarAnoModelo", primary.Label)>>
        direct   == compatible_years(first_years_of(primary, ff), veh.year_model)
        variants == {i \in 1..Len(cands) :
                        compatible_years(cands[i].years, veh.year_model) # <<>>}
        v        == CHOOSE i \in variants : \A h \in variants : i <= h
        found    == IF direct # <<>> THEN primary ELSE cands[v]
        year     == IF direct # <<>> THEN direct[1]
                    ELSE compatible_years(found.years, veh.year_model)[1]
        calls    == IF direct # <<>> THEN first ELSE first \o YearCalls(cands, v)
        md       == [alternative_search |-> direct = <<>>,
                     original_model |-> IF direct = <<>> THEN primary.Label ELSE NoModel,
                     model_code |-> found.Label,
                     year_fuel_code |-> year.Value]
    IN  IF m = "query_fipe_value" /\ ff = "error"
        THEN Returns(cands, FipeNone, first)
        ELSE IF direct = <<>> /\ variants = {}
        THEN Returns(cands, FipeNone, first \o YearCalls(cands, Len(cands)))
        ELSE Returns(cands, IF value = "codigo2" THEN FipeNone ELSE FipeData(md),
                     Append(calls, FipeCall("ConsultarValorComTodosParametros", found.Label)))

\* the brand found unmapped only after the models were asked for
brand_not_mapped_late(b) ==
    Returns(<<>>, FipeInvalid("Marca nao mapeada"), <<FipeCall("ConsultarModelos", NoModel)>>)

\* if not brand_code: return {"_status": "I", "_motivo": ...}
brand_not_mapped(b) == Returns(<<>>, FipeInvalid("Marca nao mapeada"), <<>>)

query_fipe(veh, models, value, ff) ==
    LET keywords   == split(str_upper(veh.model))
        cands == compatible_query_fipe(models, keywords)
    IN  IF brand_code_of("query_fipe", veh.brand) = ""
        THEN brand_not_mapped(veh.brand)
        ELSE IF models = <<>>
        THEN Returns(<<>>, FipeNone, <<FipeCall("ConsultarModelos", NoModel)>>)
        ELSE IF cands = <<>>
        THEN Returns(<<>>, FipeInvalid("Modelo nao encontrado"),
                     <<FipeCall("ConsultarModelos", NoModel)>>)
        ELSE resolve("query_fipe", veh, cands, value, ff)

query_fipe_value(veh, models, value, ff) ==
    LET keywords   == split(str_upper(veh.model))
        cands == compatible_query_fipe_value(models, keywords)
    IN  IF brand_code_of("query_fipe_value", veh.brand) = ""
        THEN brand_not_mapped(veh.brand)
        ELSE IF cands = <<>>
        THEN Returns(<<>>, FipeInvalid("Modelo nao encontrado"),
                     <<FipeCall("ConsultarModelos", NoModel)>>)
        ELSE resolve("query_fipe_value", veh, cands, value, ff)

Match(m, veh, models, value, ff) ==
    IF m = "query_fipe" THEN query_fipe(veh, models, value, ff)
    ELSE query_fipe_value(veh, models, value, ff)

FipeUnqueried == [kind |-> "unset", motivo |-> "", metadata |-> NoMetadata]

NoVehicle == [brand |-> "", model |-> <<>>, year_model |-> ""]

\* no vehicle is being matched
MatcherIdle ==
    /\ matcher = "query_fipe"
    /\ vehicle = NoVehicle
    /\ catalog = <<>>
    /\ value_answer = "Valor"
    /\ first_years = "ok"
    /\ compatible = <<>>
    /\ fipe_data = FipeUnqueried
    /\ fipe_calls = <<>>

NoIngest == [r \in Runs |-> {}]

\* no ingestion run is active; the work table has one row per plate
IngestIdle ==
    /\ items = [k \in Keys |-> IF status[k] = "-" THEN 0 ELSE 1]
    /\ ingest_pc = [r \in Runs |-> "idle"]
    /\ df = NoIngest
    /\ existing_plates = NoIngest
    /\ copied = NoIngest
    /\ ingestsLeft = 0

----------------------------------------------------------------------------
(* The vehicle rows of main_fipe.main *)

GOL_GL == <<"G", "O", "L", " ", "G", "L">>
POLO_GL == <<"P", "O", "L", "O", " ", "G", "L">>
KA == <<"K", "A">>

\* VehicleRecord without its key
Row(b, m, ym, y) == [brand |-> b, model |-> m, year_manuf |-> ym, year_model |-> y]

\* rows of the vehicle table: two of one brand, model and model year that
\* differ in the year of manufacture, one whose model has no such year, one of
\* an unmapped brand, one whose model the provider does not list
FipeRows ==
    { Row("VW", GOL_GL, "2019", TargetYear),
      Row("VW", GOL_GL, "2020", TargetYear),
      Row("VW", POLO_GL, "2020", TargetYear),
      Row("TESLA", KA, "2020", TargetYear),
      Row("VW", KA, "2020", TargetYear) }

\* key=f"{row[0]}|{row[1]}|{row[3]}"
key_of(v) == <<v.brand, v.model, v.year_model>>

FipeKeys == {key_of(v) : v \in FipeRows}

NoMotivos == [k \in FipeKeys |-> ""]

NoFipeRows == [k \in FipeKeys |-> 0]

\* no run of main_fipe.main is active
FipeIdle ==
    /\ fipe_status = [v \in FipeRows |-> "N"]
    /\ fipe_reason = [v \in FipeRows |-> ""]
    /\ fipe_rows = NoFipeRows
    /\ fipe_committed = [status |-> fipe_status, rows |-> fipe_rows]
    /\ fipe_pc = "idle"
    /\ vehicles = <<>>
    /\ fipe_idx = 1
    /\ fipe_results = <<>>
    /\ fipe_failed = <<>>
    /\ fipe_invalid = NoMotivos

----------------------------------------------------------------------------
(* Specifications *)

Unset == [kind |-> "unset", reason |-> NoReason]

InitRuns ==
    /\ pc = [r \in Runs |-> "idle"]
    /\ batch = [r \in Runs |-> <<>>]
    /\ readStatus = [r \in Runs |-> NoWrites]
    /\ rows_updated = [r \in Runs |-> {}]
    /\ claimRows = [r \in Runs |-> {}]
    /\ idx = [r \in Runs |-> 1]
    /\ tries = [r \in Runs |-> 0]
    /\ results = [r \in Runs |-> {}]
    /\ failed = [r \in Runs |-> {}]
    /\ invalid = [r \in Runs |-> NoReasons]
    /\ txStatus = [r \in Runs |-> NoWrites]
    /\ txReason = [r \in Runs |-> NoReasons]
    /\ txRows = [r \in Runs |-> NoRows]
    /\ now = 0
    /\ request_timestamps = [r \in Runs |-> <<>>]
    /\ last_request_time = [r \in Runs |-> -1]
    /\ dispatched = [r \in Runs |-> <<>>]
    /\ called = [r \in Runs |-> {}]
    /\ wrote = [r \in Runs |-> {}]
    /\ backoffs = [r \in Runs |-> <<>>]
    /\ total_429 = [r \in Runs |-> 0]
    /\ slow = [r \in Runs |-> 0]
    /\ lastItem = [r \in Runs |-> NoItem]

\* the work table after the ingestion of the plates of ks
InitStore(ks) ==
    /\ status = [k \in Keys |-> IF k \in ks THEN "N" ELSE "-"]
    /\ reason = NoReasons
    /\ attempts = [k \in Keys |-> 0]
    /\ details = NoRows

NoResponse == Resp(0, FALSE, FALSE, FALSE, FALSE)

\* dt_insercao of the ingested plates: all different
TimedInsertedAt ==
    [k \in Keys |->
        CASE k = "ABC1234" -> 6 [] k = "DEF5678" -> 5 [] k = "AB1234" -> 4
          [] k = "ABC1D23" -> 3 [] k = "JKL2345" -> 2 [] k = "MNO6P78" -> 1
          [] OTHER -> 0]

\* overlapping invocations of one pipeline on a table of two plates
Init ==
    /\ impl \in {"pg", "sf"}
    /\ timed = FALSE
    /\ batch_size = BatchLimit
    /\ answers = {Vehicle200, NotFound404, Garbled200, NumericColor200}
    /\ quota429 = 0
    /\ InitStore(StoreKeys)
    /\ insertedAt = TimedInsertedAt
    /\ runsLeft = MaxRuns
    /\ InitRuns
    /\ client = ClientOf(impl)
    /\ response = NoResponse
    /\ outcome = Unset
    /\ MatcherIdle
    /\ IngestIdle
    /\ FipeIdle

Next ==
    \E r \in Runs :
        \/ GetPending(r)
        \/ Claim(r)
        \/ SfRequest(r)
        \/ PgRequest(r)
        \/ Insert(r)
        \/ MarkSuccess(r)
        \/ MarkInvalid(r)
        \/ MarkError(r)
        \/ Commit(r)
        \/ Fail(r)

Spec == Init /\ [][Next]_vars

\* one invocation on a table of six new plates, with the clock running
InitBatch ==
    /\ impl \in {"pg", "sf"}
    /\ timed = TRUE
    /\ batch_size = TimedBatchLimit
    /\ answers = {Vehicle200, Garbled200, TooMany429}
    /\ quota429 = BatchMax429
    /\ InitStore(TimedKeys)
    /\ insertedAt = TimedInsertedAt
    /\ runsLeft = 1
    /\ InitRuns
    /\ client = ClientOf(impl)
    /\ response = NoResponse
    /\ outcome = Unset
    /\ MatcherIdle
    /\ IngestIdle
    /\ FipeIdle

SpecBatch == InitBatch /\ [][Next]_vars

\* one invocation on a table of two new plates, with the clock running and a
\* provider that answers 429 up to Max429 times
InitRetry ==
    /\ impl \in {"pg", "sf"}
    /\ timed = TRUE
    /\ batch_size = RetryBatchLimit
    /\ answers = {Vehicle200, NotFound404, Garbled200, TooMany429}
    /\ quota429 = Max429
    /\ InitStore(StoreKeys)
    /\ insertedAt = TimedInsertedAt
    /\ runsLeft = 1
    /\ InitRuns
    /\ client = ClientOf(impl)
    /\ response = NoResponse
    /\ outcome = Unset
    /\ MatcherIdle
    /\ IngestIdle
    /\ FipeIdle

SpecRetry == InitRetry /\ [][Next]_vars

\* one invocation reads the pending plates of a work table of four plates in
\* any statuses, inserted at any times (equal times included)
InitPending ==
    /\ impl \in {"pg", "sf"}
    /\ timed = FALSE
    /\ batch_size \in 0..PendingLimit
    /\ answers = {Vehicle200}
    /\ quota429 = 0
    /\ \E st \in [PendingKeys -> {"N", "P", "E", "S", "I"}] :
        /\ status = [k \in Keys |-> IF k \in PendingKeys THEN st[k] ELSE "-"]
        /\ reason = [k \in Keys |-> IF k \in PendingKeys /\ st[k] = "I"
                                     THEN Reason(404, "NOT_FOUND") ELSE NoReason]
        /\ attempts = [k \in Keys |-> IF k \in PendingKeys /\ impl = "pg" /\ st[k] # "N"
                                       THEN 1 ELSE 0]
        /\ details = [k \in Keys |-> IF k \in PendingKeys /\ st[k] = "S" THEN 1 ELSE 0]
    /\ \E at \in [PendingKeys -> 1..MaxStamp] :
        insertedAt = [k \in Keys |-> IF k \in PendingKeys THEN at[k] ELSE 0]
    /\ runsLeft = 1
    /\ InitRuns
    /\ client = ClientOf(impl)
    /\ response = NoResponse
    /\ outcome = Unset
    /\ MatcherIdle
    /\ IngestIdle
    /\ FipeIdle

NextPending == \E r \in Runs : GetPending(r)

SpecPending == InitPending /\ [][NextPending]_vars

\* one call of a client's single-request function on one provider response
InitClient ==
    /\ client \in Clients
    /\ response \in ResponsesOf(client)
    /\ outcome = Unset
    /\ impl = (IF client = "query_plate_api" THEN "sf" ELSE "pg")
    /\ timed = FALSE
    /\ batch_size = BatchLimit
    /\ answers = {response}
    /\ quota429 = 0
    /\ InitStore(StoreKeys)
    /\ insertedAt = TimedInsertedAt
    /\ runsLeft = 0
    /\ InitRuns
    /\ MatcherIdle
    /\ IngestIdle
    /\ FipeIdle

\* _query_once / query_plate_api returns
Classify ==
    /\ outcome = Unset
    /\ outcome' = QueryOnce(client, response)
    /\ UNCHANGED <<impl, timed, batch_size, answers, quota429, status, reason, attempts,
                   insertedAt, details, pc, runsLeft, batch, readStatus, claimRows,
                   rows_updated, idx, tries, results, failed, invalid, txStatus, txReason,
                   txRows, now, request_timestamps, last_request_time, dispatched, called,
                   wrote, backoffs, total_429, slow, lastItem, client, response,
                   matcherVars, ingestVars, fipeVars>>

NextClient == Classify

SpecClient == InitClient /\ [][NextClient]_vars

\* one vehicle of a batch is looked up by one of the matchers
InitMatcher ==
    /\ matcher \in Matchers
    /\ vehicle \in Vehicles
    /\ catalog \in Catalogs
    /\ value_answer \in ValueAnswers
    /\ first_years = "ok"
    /\ compatible = <<>>
    /\ fipe_data = FipeUnqueried
    /\ fipe_calls = <<>>
    /\ impl = "sf"
    /\ timed = FALSE
    /\ batch_size = BatchLimit
    /\ answers = {}
    /\ quota429 = 0
    /\ InitStore({})
    /\ insertedAt = TimedInsertedAt
    /\ runsLeft = 0
    /\ InitRuns
    /\ client = ClientOf(impl)
    /\ response = NoResponse
    /\ outcome = Unset
    /\ IngestIdle
    /\ FipeIdle

\* query_fipe / query_fipe_value returns
QueryFipe ==
    /\ fipe_data = FipeUnqueried
    /\ LET ret == Match(matcher, vehicle, catalog, value_answer, first_years)
       IN  /\ compatible' = ret.compatible
           /\ fipe_data' = ret.data
           /\ fipe_calls' = ret.calls
    /\ UNCHANGED <<impl, timed, batch_size, answers, quota429, status, reason, attempts,
                   insertedAt, details, pc, runsLeft, batch, readStatus, claimRows,
                   rows_updated, idx, tries, results, failed, invalid, txStatus, txReason,
                   txRows, now, request_timestamps, last_request_time, dispatched, called,
                   wrote, backoffs, total_429, slow, lastItem, clientVars,
                   matcher, vehicle, catalog, value_answer, first_years, ingestVars, fipeVars>>

NextMatcher == QueryFipe

SpecMatcher == InitMatcher /\ [][NextMatcher]_vars

----------------------------------------------------------------------------
(* Ingestion: main_plate_raw.main (insert_new_plates); main_consolidation   *)
(* (insert_new_vehicles) has the same steps on brz_03_veiculo_consolidado   *)

MaxIngestions == 2

\* plates the sources may hold
SourceKeys == {"ABC1234", "DEF5678", "ABC1D23"}

\* the plates of the work table, as a committed read sees them
Present == {k \in Keys : items[k] > 0}

\* an ingestion that inserts every plate of df
new_plates_df_unfiltered(d, existing) == d

\* new_plates_df = df[~df['ds_placa'].isin(existing_plates)]
new_plates_df(d, existing) == d \ existing

flowVars ==
    <<status, reason, attempts, details, pc, runsLeft, batch, readStatus, claimRows,
      rows_updated, idx, tries, results, failed, invalid, txStatus, txReason, txRows, now,
      request_timestamps, last_request_time, dispatched, called, wrote, backoffs,
      total_429, slow, lastItem, constVars, clientVars, matcherVars, fipeVars>>

\* aggregate_plates and get_existing_plates: the plates of the sources, then
\* SELECT ds_placa FROM brz_01_placa_raw; "if df_plates.empty: return"
GetExisting(r) ==
    /\ ingest_pc[r] = "idle"
    /\ ingestsLeft > 0
    /\ ingestsLeft' = ingestsLeft - 1
    /\ \E d \in SUBSET SourceKeys :
        /\ df' = [df EXCEPT ![r] = d]
        /\ existing_plates' = [existing_plates EXCEPT ![r] = IF d = {} THEN {} ELSE Present]
        /\ ingest_pc' = [ingest_pc EXCEPT ![r] = IF d = {} THEN "idle" ELSE "insert"]
    /\ UNCHANGED <<items, copied, flowVars>>

\* the end of an ingestion run: its locals are gone
IngestReturn(r) ==
    /\ ingest_pc' = [ingest_pc EXCEPT ![r] = "idle"]
    /\ df' = [df EXCEPT ![r] = {}]
    /\ existing_plates' = [existing_plates EXCEPT ![r] = {}]
    /\ copied' = [copied EXCEPT ![r] = {}]

\* insert_new_plates: COPY of the new plates into the table whose primary key
\* is ds_placa. A plate another run has inserted and not yet committed makes
\* the COPY wait; a plate that is in the table makes it fail, and main rolls
\* back and re-raises
InsertNewPlates(r) ==
    /\ ingest_pc[r] = "insert"
    /\ LET new == new_plates_df(df[r], existing_plates[r])
       IN  /\ \A r2 \in Runs \ {r} : copied[r2] \cap new = {}
           /\ IF new \cap Present # {}
              THEN IngestReturn(r)
              ELSE /\ copied' = [copied EXCEPT ![r] = new]
                   /\ ingest_pc' = [ingest_pc EXCEPT ![r] = "commit"]
                   /\ UNCHANGED <<df, existing_plates>>
    /\ UNCHANGED <<items, ingestsLeft, flowVars>>

\* conn.commit() of main_plate_raw.main: the inserted rows become visible,
\* each with ds_status 'N', no reason and nr_tentativas 0
CommitIngest(r) ==
    /\ ingest_pc[r] = "commit"
    /\ items' = [k \in Keys |-> IF k \in copied[r] THEN items[k] + 1 ELSE items[k]]
    /\ status' = [k \in Keys |-> IF k \in copied[r] /\ items[k] = 0 THEN "N" ELSE status[k]]
    /\ reason' = [k \in Keys |-> IF k \in copied[r] /\ items[k] = 0 THEN NoReason ELSE reason[k]]
    /\ attempts' = [k \in Keys |-> IF k \in copied[r] /\ items[k] = 0 THEN 0 ELSE attempts[k]]
    /\ IngestReturn(r)
    /\ UNCHANGED <<details, pc, runsLeft, batch, readStatus, claimRows,
                   rows_updated, idx, tries, results, failed, invalid, txStatus, txReason,
                   txRows, now, request_timestamps, last_request_time, dispatched, called,
                   wrote, backoffs, total_429, slow, lastItem, constVars, clientVars,
                   matcherVars, fipeVars, ingestsLeft>>

\* an exception between the COPY and the commit: conn.rollback()
FailIngest(r) ==
    /\ ingest_pc[r] = "commit"
    /\ IngestReturn(r)
    /\ UNCHANGED <<items, ingestsLeft, flowVars>>

\* a work table of which each source plate is absent, new, or was processed
StoredItems == {<<"-", 0>>, <<"N", 0>>, <<"S", 1>>, <<"E", 2>>}

InitIngest ==
    /\ impl = "pg"
    /\ timed = FALSE
    /\ batch_size = BatchLimit
    /\ answers = {}
    /\ quota429 = 0
    /\ \E st \in [SourceKeys -> StoredItems] :
        /\ status = [k \in Keys |-> IF k \in SourceKeys THEN st[k][1] ELSE "-"]
        /\ attempts = [k \in Keys |-> IF k \in SourceKeys THEN st[k][2] ELSE 0]
        /\ details = [k \in Keys |-> IF k \in SourceKeys /\ st[k][1] = "S" THEN 1 ELSE 0]
    /\ reason = NoReasons
    /\ insertedAt = TimedInsertedAt
    /\ runsLeft = 0
    /\ InitRuns
    /\ client = ClientOf(impl)
    /\ response = NoResponse
    /\ outcome = Unset
    /\ MatcherIdle
    /\ FipeIdle
    /\ items = [k \in Keys |-> IF status[k] = "-" THEN 0 ELSE 1]
    /\ ingest_pc = [r \in Runs |-> "idle"]
    /\ df = NoIngest
    /\ existing_plates = NoIngest
    /\ copied = NoIngest
    /\ ingestsLeft = MaxIngestions

NextIngest ==
    \E r \in Runs :
        \/ GetExisting(r)
        \/ InsertNewPlates(r)
        \/ CommitIngest(r)
        \/ FailIngest(r)

SpecIngest == InitIngest /\ [][NextIngest]_vars

----------------------------------------------------------------------------
(* main_fipe.main: one run at a time over the vehicle rows *)

\* LIMIT of get_pending_vehicles
FipeBatchLimit == 2

FipePending == {v \in FipeRows : fipe_status[v] \in {"P", "E", "N"}}

\* the possible results of SELECT ... WHERE DS_STATUS IN ('P', 'E', 'N')
\* ORDER BY CASE DS_STATUS ..., DT_INSERCAO DESC LIMIT batch_size; the rows of
\* one ingestion have one DT_INSERCAO, their order is the database's
get_pending_vehicles(limit) ==
    LET n == IF Cardinality(FipePending) < limit THEN Cardinality(FipePending) ELSE limit
    IN  { b \in [1..n -> FipePending] :
            /\ \A i, j \in 1..n : i # j => b[i] # b[j]
            /\ \A i, j \in 1..n :
                 i < j => StatusRank(fipe_status[b[i]]) <= StatusRank(fipe_status[b[j]])
            /\ \A v \in FipePending \ SeqSet(b) :
                 \A i \in 1..n : StatusRank(fipe_status[b[i]]) <= StatusRank(fipe_status[v]) }

\* the vehicle as the matcher reads it
record_of(v) == [brand |-> v.brand, model |-> v.model, year_model |-> v.year_model]

\* UPDATE ... SET DS_STATUS = st WHERE DS_MARCA = .. AND DS_MODELO = .. AND
\* NR_ANO_MODELO = .., once per key of ks, uncommitted
update_status_fipe(ks, st) ==
    [v \in FipeRows |-> IF key_of(v) \in ks THEN st ELSE fipe_status[v]]

FipeInvalidKeys == {k \in FipeKeys : fipe_invalid[k] # ""}

\* "if not df.empty", "if invalid", "if failed", then the commit
FipeStage(res, inv, fl) ==
    IF res # <<>> THEN "insert"
    ELSE IF inv # NoMotivos THEN "mark_i"
    ELSE IF fl # <<>> THEN "mark_e"
    ELSE "commit"

plateVars ==
    <<status, reason, attempts, details, pc, runsLeft, batch, readStatus, claimRows,
      rows_updated, idx, tries, results, failed, invalid, txStatus, txReason, txRows, now,
      request_timestamps, last_request_time, dispatched, called, wrote, backoffs,
      total_429, slow, lastItem, constVars, clientVars, ingestVars>>

\* the locals of a run that has returned or raised
FipeReturn ==
    /\ fipe_pc' = "idle"
    /\ vehicles' = <<>>
    /\ fipe_idx' = 1
    /\ fipe_results' = <<>>
    /\ fipe_failed' = <<>>
    /\ fipe_invalid' = NoMotivos
    /\ vehicle' = NoVehicle
    /\ value_answer' = "Valor"
    /\ first_years' = "ok"
    /\ compatible' = <<>>
    /\ fipe_data' = FipeUnqueried

\* get_pending_vehicles, then "if not vehicles: return"
FipeGetPending ==
    /\ fipe_pc = "idle"
    /\ \E b \in get_pending_vehicles(FipeBatchLimit) :
        /\ b # <<>>
        /\ vehicles' = b
    /\ fipe_pc' = "claim"
    /\ UNCHANGED <<fipe_status, fipe_rows, fipe_committed, fipe_idx, fipe_results,
                   fipe_failed, fipe_invalid, matcherVars, fipe_reason, plateVars>>

\* update_status(conn, [v.key for v in vehicles], 'P')
FipeClaim ==
    /\ fipe_pc = "claim"
    /\ fipe_status' = update_status_fipe({key_of(vehicles[i]) : i \in 1..Len(vehicles)}, "P")
    /\ fipe_pc' = "process"
    /\ UNCHANGED <<fipe_rows, fipe_committed, vehicles, fipe_idx, fipe_results,
                   fipe_failed, fipe_invalid, matcherVars, fipe_reason, plateVars>>

\* process_vehicles: one pass of "for vehicle in vehicles"
FipeProcess ==
    /\ fipe_pc = "process"
    /\ \E value \in ValueAnswers, ff \in FirstFetches :
        LET v   == vehicles[fipe_idx]
            ret == query_fipe(record_of(v), catalog, value, ff)
            res == IF ret.data.kind = "data" THEN Append(fipe_results, key_of(v))
                   ELSE fipe_results
            inv == IF ret.data.kind = "I"
                   THEN [fipe_invalid EXCEPT ![key_of(v)] = ret.data.motivo]
                   ELSE fipe_invalid
            fl  == IF ret.data.kind = "None" THEN Append(fipe_failed, key_of(v))
                   ELSE fipe_failed
        IN  /\ vehicle' = record_of(v)
            /\ value_answer' = value
            /\ first_years' = ff
            /\ compatible' = ret.compatible
            /\ fipe_data' = ret.data
            /\ fipe_results' = res
            /\ fipe_invalid' = inv
            /\ fipe_failed' = fl
            /\ fipe_idx' = fipe_idx + 1
            /\ fipe_pc' = IF fipe_idx + 1 > Len(vehicles) THEN FipeStage(res, inv, fl)
                          ELSE "process"
    /\ UNCHANGED <<fipe_status, fipe_rows, fipe_committed, vehicles, matcher, catalog,
                   fipe_calls, fipe_reason, plateVars>>

\* the valuation rows of one key are counted up to MaxFipeRows
MaxFipeRows == 2

AtMost(n) == IF n > MaxFipeRows THEN MaxFipeRows ELSE n

\* insert_fipe_data(conn, df): one valuation row per row of df
FipeInsert ==
    /\ fipe_pc = "insert"
    /\ fipe_rows' = [k \in FipeKeys |->
                       AtMost(fipe_rows[k]
                              + Cardinality({i \in 1..Len(fipe_results) :
                                               fipe_results[i] = k}))]
    /\ fipe_pc' = "mark_s"
    /\ UNCHANGED <<fipe_status, fipe_committed, vehicles, fipe_idx, fipe_results,
                   fipe_failed, fipe_invalid, matcherVars, fipe_reason, plateVars>>

\* update_status(conn, df['CHAVE_VEICULO'].tolist(), 'S')
FipeMarkSuccess ==
    /\ fipe_pc = "mark_s"
    /\ fipe_status' = update_status_fipe(SeqSet(fipe_results), "S")
    /\ fipe_pc' = FipeStage(<<>>, fipe_invalid, fipe_failed)
    /\ UNCHANGED <<fipe_rows, fipe_committed, vehicles, fipe_idx, fipe_results,
                   fipe_failed, fipe_invalid, matcherVars, fipe_reason, plateVars>>

\* update_status(conn, list(invalid.keys()), 'I')
FipeMarkInvalid ==
    /\ fipe_pc = "mark_i"
    /\ fipe_status' = update_status_fipe(FipeInvalidKeys, "I")
    /\ fipe_pc' = FipeStage(<<>>, NoMotivos, fipe_failed)
    /\ UNCHANGED <<fipe_rows, fipe_committed, vehicles, fipe_idx, fipe_results,
                   fipe_failed, fipe_invalid, matcherVars, fipe_reason, plateVars>>

\* update_status(conn, failed, 'E')
FipeMarkError ==
    /\ fipe_pc = "mark_e"
    /\ fipe_status' = update_status_fipe(SeqSet(fipe_failed), "E")
    /\ fipe_pc' = "commit"
    /\ UNCHANGED <<fipe_rows, fipe_committed, vehicles, fipe_idx, fipe_results,
                   fipe_failed, fipe_invalid, matcherVars, fipe_reason, plateVars>>

\* conn.commit(), then the return
FipeCommit ==
    /\ fipe_pc = "commit"
    /\ fipe_committed' = [status |-> fipe_status, rows |-> fipe_rows]
    /\ FipeReturn
    /\ UNCHANGED <<fipe_status, fipe_rows, matcher, catalog, fipe_calls, fipe_reason, plateVars>>

\* an exception inside the try of main: conn.rollback(), then raise
FipeFail ==
    /\ fipe_pc \notin {"idle", "commit"}
    /\ fipe_status' = fipe_committed.status
    /\ fipe_rows' = fipe_committed.rows
    /\ FipeReturn
    /\ UNCHANGED <<fipe_committed, matcher, catalog, fipe_calls, fipe_reason, plateVars>>

\* the provider's models of brand 59: "Gol" without the year looked for,
\* "GOL GL" with it, "POLO" without it
FlowCatalog ==
    << [Label |-> <<"G", "o", "l">>, years |-> <<Y2019>>],
       [Label |-> GOL_GL, years |-> <<Y2019, Y2020>>],
       [Label |-> <<"P", "O", "L", "O">>, years |-> <<Y2019>>] >>

FlowCatalogs == {<<>>, FlowCatalog}

InitFipe ==
    /\ impl = "pg"
    /\ timed = FALSE
    /\ batch_size = BatchLimit
    /\ answers = {}
    /\ quota429 = 0
    /\ InitStore({})
    /\ insertedAt = TimedInsertedAt
    /\ runsLeft = 0
    /\ InitRuns
    /\ client = ClientOf(impl)
    /\ response = NoResponse
    /\ outcome = Unset
    /\ IngestIdle
    /\ matcher = "query_fipe"
    /\ vehicle = NoVehicle
    /\ catalog \in FlowCatalogs
    /\ value_answer = "Valor"
    /\ first_years = "ok"
    /\ compatible = <<>>
    /\ fipe_data = FipeUnqueried
    /\ fipe_calls = <<>>
    /\ fipe_status \in [FipeRows -> {"N", "E", "S"}]
    /\ fipe_reason = [v \in FipeRows |-> ""]
    /\ fipe_rows = [k \in FipeKeys |->
                      Cardinality({v \in FipeRows : key_of(v) = k /\ fipe_status[v] = "S"})]
    /\ fipe_committed = [status |-> fipe_status, rows |-> fipe_rows]
    /\ fipe_pc = "idle"
    /\ vehicles = <<>>
    /\ fipe_idx = 1
    /\ fipe_results = <<>>
    /\ fipe_failed = <<>>
    /\ fipe_invalid = NoMotivos

NextFipe ==
    \/ FipeGetPending
    \/ FipeClaim
    \/ FipeProcess
    \/ FipeInsert
    \/ FipeMarkSuccess
    \/ FipeMarkInvalid
    \/ FipeMarkError
    \/ FipeCommit
    \/ FipeFail

SpecFipe == InitFipe /\ [][NextFipe]_vars

----------------------------------------------------------------------------
(* Properties of the work-item store and of overlapping invocations (Spec) *)

InFlight(r) == pc[r] # "idle"

\* the run's claim counted plate k and the run has not yet issued the
\* terminal write of k
Holds(r, k) == InFlight(r) /\ k \in claimRows[r] /\ k \notin wrote[r]

\* C1: claim exclusivity: of two runs that execute the claim step for one
\* plate, at most one has the plate counted by its claim; the claim of the
\* other reports 0 rows for it
ClaimExclusivity ==
    \A r1 \in Runs, r2 \in Runs, k \in Keys :
        r1 # r2 => ~(Holds(r1, k) /\ Holds(r2, k))

LegalTransitions ==
    {<<"N", "P">>, <<"E", "P">>, <<"P", "S">>, <<"P", "E">>, <<"P", "I">>}

\* C2: legal transitions only: every change of a plate's DS_STATUS is one of
\* N->P, E->P, P->S, P->E, P->I (so S and I are final), and a step that is no
\* such transition leaves the plate's status, reason and attempts as they were
OnlyLegalTransitions ==
    [][\A k \in Keys :
          IF status'[k] # status[k]
          THEN <<status[k], status'[k]>> \in LegalTransitions
          ELSE reason'[k] = reason[k] /\ attempts'[k] = attempts[k]]_vars

\* run r executes a terminal status UPDATE (to S, I or E) in this step
TerminalWrite(r) ==
    /\ pc[r] \in {"mark_s", "mark_i", "mark_e"}
    /\ pc'[r] \notin {pc[r], "idle"}

\* C3: idempotent terminal writes: a terminal write counts and changes only
\* rows that are Processing; for a plate that has left Processing (a second
\* mark_success for it included) it affects 0 rows and the plate's status and
\* reason stay as they are
TerminalWritesGuarded ==
    [][/\ \A r \in Runs :
            TerminalWrite(r) => \A k \in rows_updated'[r] : status[k] = "P"
       /\ \A k \in Keys :
            status[k] \in {"S", "I", "E"} /\ status'[k] \in {"S", "I", "E"}
                => status'[k] = status[k] /\ reason'[k] = reason[k]]_vars

\* the plates the run's get_pending_plates returned
ReadKeys(r) == {k \in Keys : readStatus[r][k] # ""}

\* C4: claimer ownership: a run calls the provider for, and issues a terminal
\* write for, only plates its own claim transitioned to Processing; a plate
\* its claim did not transition is dropped from the batch
ClaimerOwnership ==
    \A r \in Runs :
        /\ called[r] \subseteq claimRows[r]
        /\ wrote[r] \subseteq claimRows[r]
        /\ pc[r] \in {"process", "insert", "mark_s", "mark_i", "mark_e", "commit"}
              => SeqSet(batch[r]) \subseteq claimRows[r]

\* the run is past its item loop
Persisting(r) == pc[r] \in {"insert", "mark_s", "mark_i", "mark_e", "commit"}

\* C5: documented race: two overlapping invocations that both read a plate as
\* pending each go on to process it; neither the claim of the other nor its
\* own claim's row count takes the plate out of a run's batch, so every plate
\* read is called upon (when well-formed) and ends in one class of the run's
\* partition, whose terminal writes the run then issues
OverlappingRunsBothProcess ==
    \A r1 \in Runs, r2 \in Runs, k \in Keys :
        (r1 # r2 /\ k \in ReadKeys(r1) /\ k \in ReadKeys(r2)
           /\ Persisting(r1) /\ Persisting(r2))
        => /\ validate_plate(k) => k \in called[r1] /\ k \in called[r2]
           /\ \A r \in {r1, r2} :
                /\ k \in results[r] \cup InvalidKeys(r) \cup failed[r]
                /\ pc[r] = "commit" => k \in wrote[r]

\* both runs read plate k as New, both called the provider for it and both
\* issued its terminal write
DoubleProcessed ==
    \E r1 \in Runs, r2 \in Runs, k \in Keys :
        /\ r1 # r2
        /\ readStatus[r1][k] = "N" /\ readStatus[r2][k] = "N"
        /\ k \in called[r1] /\ k \in called[r2]
        /\ k \in wrote[r1] /\ k \in wrote[r2]

----------------------------------------------------------------------------
(* Properties of the pending read (SpecPending) *)

Priority(s) == CASE s = "P" -> 1 [] s = "E" -> 2 [] s = "N" -> 3

\* plate a ranks strictly before plate b: higher priority (Processing > Error
\* > New) or, in one status, inserted more recently
RanksBefore(a, b) ==
    \/ Priority(status[a]) < Priority(status[b])
    \/ status[a] = status[b] /\ insertedAt[a] > insertedAt[b]

\* C6: get_pending(limit) returns at most limit plates, each once, all of
\* status Processing, Error or New (never Success or Invalid), in priority
\* order Processing > Error > New and most recently inserted first within a
\* status; no pending plate left out ranks strictly before a returned one
PendingReadOrdered ==
    \A r \in Runs :
        pc[r] = "claim" =>
            LET b == batch[r] IN
            /\ Len(b) <= batch_size
            /\ \A i \in 1..Len(b) : status[b[i]] \in {"P", "E", "N"}
            /\ \A i \in 1..Len(b), j \in 1..Len(b) :
                  i < j => b[i] # b[j] /\ ~RanksBefore(b[j], b[i])
            /\ \A k \in Keys :
                  (status[k] \in {"P", "E", "N"} /\ k \notin SeqSet(b))
                  => \A i \in 1..Len(b) : ~RanksBefore(k, b[i])

\* a read that returned a Processing plate before an Error plate, left out an
\* older Error plate for the limit, and skipped a Success plate
PendingReadCut ==
    \E r \in Runs :
        /\ pc[r] = "claim"
        /\ Len(batch[r]) = 2
        /\ status[batch[r][1]] = "P"
        /\ status[batch[r][2]] = "E"
        /\ \E k \in Keys \ SeqSet(batch[r]) :
              status[k] = "E" /\ insertedAt[k] < insertedAt[batch[r][2]]
        /\ \E k \in Keys : status[k] = "S"

----------------------------------------------------------------------------
(* Properties of the request timing of one invocation (SpecBatch)           *)

\* C7: rate limiter windowing: within one invocation the (k+5)-th provider
\* request dispatched, retries after 429 counted, goes out at least
\* WINDOW_DURATION seconds after the k-th
WindowRespected ==
    \A r \in Runs :
        \A i \in 1..Len(dispatched[r]) :
            i + REQUESTS_PER_WINDOW <= Len(dispatched[r])
            => dispatched[r][i + REQUESTS_PER_WINDOW] - dispatched[r][i] >= WINDOW_DURATION

\* C8: minimum interval: within one invocation two consecutive provider
\* requests, first attempts and retries alike, are dispatched at least
\* MIN_INTERVAL seconds apart
MinIntervalRespected ==
    \A r \in Runs :
        \A i \in 1..Len(dispatched[r]) :
            i + 1 <= Len(dispatched[r])
            => dispatched[r][i + 1] - dispatched[r][i] >= MIN_INTERVAL

\* C8 as the code has it: in the Snowflake pipeline two consecutive provider
\* requests of one invocation, first attempts and retries alike, are
\* dispatched at least MIN_INTERVAL seconds apart; main_details.process_plates
\* enforces no interval
MinIntervalSnowflake ==
    \A r \in Runs :
        impl = "sf" =>
            \A i \in 1..Len(dispatched[r]) :
                i + 1 <= Len(dispatched[r])
                => dispatched[r][i + 1] - dispatched[r][i] >= MIN_INTERVAL

\* the Snowflake pipeline dispatched six requests, one of them a retry after a
\* 429, two of them exactly MIN_INTERVAL apart
SixRequestsSpaced ==
    \E r \in Runs :
        /\ impl = "sf"
        /\ Len(dispatched[r]) = 6
        /\ total_429[r] = 1
        /\ \E i \in 1..5 : dispatched[r][i + 1] - dispatched[r][i] = MIN_INTERVAL

----------------------------------------------------------------------------
(* Properties of the 429 retry loop (SpecRetry)                             *)

\* the requests of the plate in work: the last n dispatch times
AttemptTime(r, j) == dispatched[r][Len(dispatched[r]) - tries[r] + j]

\* C9: a plate answered 429 is asked again after a backoff of
\* RETRY_BACKOFF + attempt * 5 seconds, for at most MAX_RETRIES requests in
\* all; when every request is answered 429 the plate ends among the failed
\* plates (Error), never among the invalid ones; when a request gets another
\* answer the retrying stops and the plate ends in the class of that answer
RetryWithBackoff ==
    \A r \in Runs :
        /\ tries[r] < MAX_RETRIES
        /\ Len(backoffs[r]) = tries[r]
        /\ \A j \in 1..tries[r] :
              /\ backoffs[r][j] = RETRY_BACKOFF + (j * 5)
              /\ j < tries[r] => AttemptTime(r, j + 1) - AttemptTime(r, j) >= backoffs[r][j]
              /\ j = tries[r] => now - AttemptTime(r, j) >= backoffs[r][j]
        /\ LET it == lastItem[r] IN
           it.plate # "" =>
              /\ it.requests <= MAX_RETRIES
              /\ validate_plate(it.plate) => Len(it.backoffs) = it.requests - 1
              /\ \A j \in 1..Len(it.backoffs) : it.backoffs[j] = RETRY_BACKOFF + (j * 5)
              /\ it.last = "429" =>
                    /\ it.requests = MAX_RETRIES
                    /\ it.plate \in failed[r]
                    /\ it.plate \notin InvalidKeys(r) \cup results[r]
              /\ it.last = "data" => it.plate \in results[r] \ (failed[r] \cup InvalidKeys(r))
              /\ it.last = "invalid" => it.plate \in InvalidKeys(r) \ (failed[r] \cup results[r])
              /\ it.last = "none" => it.plate \in failed[r] \ (results[r] \cup InvalidKeys(r))

\* a plate answered 429 on every one of its MAX_RETRIES requests
RetriesExhausted ==
    \E r \in Runs :
        /\ lastItem[r].last = "429"
        /\ lastItem[r].requests = MAX_RETRIES
        /\ Len(lastItem[r].backoffs) = MAX_RETRIES - 1

----------------------------------------------------------------------------
(* Properties of the response classification (SpecClient)                   *)

\* the AnyCar exchange is a POST and, when the POST returned an id, a GET:
\* the response that decides is the GET's
Decisive(c, resp) ==
    IF c = "AnyCarAPIClient" /\ resp.code = 200 /\ resp.json /\ resp.flag /\ resp.data
    THEN [code |-> resp.gcode, shaped |-> resp.gjson /\ resp.gflag /\ resp.gdata]
    ELSE [code |-> resp.code, shaped |-> resp.json /\ resp.flag /\ resp.data]

\* the reference mapping of one provider response to an outcome
MatchesReference(c, resp, out) ==
    LET d == Decisive(c, resp) IN
    IF d.code \in {400, 403, 404} \/ d.code >= 500
    THEN out.kind = "invalid" /\ out.reason.code = d.code
    ELSE IF d.code = 429 THEN out = RateLimited
    ELSE IF d.code = 200 /\ d.shaped
    THEN IF resp.marca \/ resp.modelo
         THEN resp.found => out = Data
         ELSE out = Invalid(0, "EMPTY_DATA")
    ELSE out = None

\* C10: response classification: for every single provider response the
\* client's outcome is the reference mapping's: 400, 403, 404 and 5xx ->
\* Invalid with a reason that encodes the status code, 429 -> RateLimited,
\* 200 with neither brand nor model -> Invalid(EMPTY_DATA), 200 with the
\* required fields -> Success, anything else -> TransientUnknown
ClassificationIsReference ==
    outcome # Unset => MatchesReference(client, response, outcome)

\* the mapping of a single POST response that the three clients share but for
\* status 400
MatchesShared(resp, out) ==
    IF resp.code \in {400, 403, 404} \/ resp.code >= 500
    THEN out.kind = "invalid" /\ out.reason.code = resp.code
    ELSE IF resp.code = 429 THEN out = RateLimited
    ELSE IF resp.code = 200 /\ resp.json /\ resp.flag /\ resp.data
    THEN IF resp.marca \/ resp.modelo THEN out = Data ELSE out = Invalid(0, "EMPTY_DATA")
    ELSE out = None

\* the AnyCar exchange whose POST returned 200 and a JSON body
MatchesAnyCar200(resp, out) ==
    IF ~(resp.flag /\ resp.data) THEN out = Invalid(0, "NO_ID_RETURNED")
    ELSE IF resp.gcode = 200 /\ resp.gjson
    THEN IF resp.gflag /\ resp.gdata
         THEN IF resp.found THEN out = Data
              ELSE out = Invalid(0, "NOT_FOUND_IN_DATABASE")
         ELSE out = Invalid(0, "EMPTY_DATA")
    ELSE IF resp.gcode = 429 THEN out = RateLimited
    ELSE IF resp.gcode >= 500 THEN out.kind = "invalid" /\ out.reason.code = resp.gcode
    ELSE out = None

\* C10 as the code has it: 403, 404 and 5xx -> Invalid with the status code in
\* the reason, 429 -> RateLimited, and for PlacaAPIClient and query_plate_api
\* 200 with success and data -> Success when a brand or a model is present,
\* Invalid(EMPTY_DATA) when neither is, anything else -> TransientUnknown;
\* but 400 is TransientUnknown in query_plate_api, in PlacaAPIClient Invalid
\* with the body's error text (400_INVALID_DATA without one) or
\* TransientUnknown when the body is no JSON; and AnyCarAPIClient decides a
\* 200 by its POST and GET pair: no id -> Invalid(NO_ID_RETURNED), GET 200
\* with status and data -> Success when encontrado, whatever brand and model,
\* else Invalid(NOT_FOUND_IN_DATABASE), GET 200 without them ->
\* Invalid(EMPTY_DATA), GET 429 -> RateLimited, GET 5xx -> Invalid with the
\* code, any other GET -> TransientUnknown
ClassificationPerClient ==
    outcome # Unset =>
        IF response.code = 400 /\ client = "query_plate_api" THEN outcome = None
        ELSE IF response.code = 400 /\ client = "PlacaAPIClient"
        THEN IF ~response.json THEN outcome = None
             ELSE /\ outcome.kind = "invalid"
                  /\ ~response.error => outcome.reason = Reason(400, "INVALID_DATA")
        ELSE IF response.code = 200 /\ response.json /\ client = "AnyCarAPIClient"
        THEN MatchesAnyCar200(response, outcome)
        ELSE MatchesShared(response, outcome)

\* query_plate_api has returned None for a 400
BadRequestRetried ==
    /\ client = "query_plate_api"
    /\ response = BadRequest400
    /\ outcome = None

----------------------------------------------------------------------------
(* Properties of the format pre-check (SpecBatch)                           *)

\* the shape of a plate once hyphens and spaces are removed: "L" for a
\* letter of either case, "D" for a digit
Shape(k) ==
    LET kept == SelectSeq(PlateChars(k), LAMBDA c : c # "-" /\ c # " ")
    IN  [i \in 1..Len(kept) |->
            IF kept[i] \in Digit THEN "D"
            ELSE IF upper(kept[i]) \in Upper THEN "L" ELSE "?"]

WellFormed(k) ==
    Shape(k) \in {<<"L", "L", "L", "D", "D", "D", "D">>,
                  <<"L", "L", "L", "D", "L", "D", "D">>}

WellFormedKeys == {k \in Keys : WellFormed(k)}

\* what validate_plate answers for the three plates the property names
ExamplesValidated ==
    /\ ~validate_plate("AB1234")
    /\ validate_plate("ABC1234") /\ validate_plate("ABC1D23")

\* the run's item loop has dealt with plate k of its batch
Handled(r, k) == \E i \in 1..Len(batch[r]) : batch[r][i] = k /\ i < idx[r]

\* C11: format short-circuit: a plate that is neither 3 letters + 4 digits
\* nor 3 letters + 1 digit + 1 letter + 2 digits once hyphens and spaces are
\* removed and it is upper-cased ("AB1234") ends Invalid with the format
\* reason and causes no provider request; "ABC1234" and "ABC1D23" pass the
\* validation and lead to a request
FormatShortCircuit ==
    /\ ExamplesValidated
    /\ \A r \in Runs, k \in Keys :
          IF k \in WellFormedKeys
          THEN Handled(r, k) => k \in called[r]
          ELSE /\ k \notin called[r]
               /\ Handled(r, k) =>
                     /\ invalid[r][k] = Reason(0, "INVALID_PLATE_FORMAT")
                     /\ k \notin results[r] \cup failed[r]
               /\ lastItem[r].plate = k => lastItem[r].requests = 0

\* one invocation has called the provider for "ABC1234" and has just marked
\* "AB1234" invalid without a request
FormatRejected ==
    \E r \in Runs :
        /\ Handled(r, "AB1234") /\ "AB1234" \in InvalidKeys(r)
        /\ lastItem[r].plate = "AB1234" /\ lastItem[r].requests = 0
        /\ "ABC1234" \in called[r]

----------------------------------------------------------------------------
(* Properties of the FIPE matcher (SpecMatcher)                             *)

Queried == fipe_data # FipeUnqueried

\* the matcher's table has no code for the brand
BrandAbsent ==
    IF matcher = "query_fipe"
    THEN brand_upper(vehicle.brand) \notin DOMAIN BRAND_CODES_client
    ELSE vehicle.brand \notin DOMAIN BRAND_CODES_flow

\* C12: unmapped brand: when the vehicle's brand is absent from the static
\* brand-code table the matcher returns Invalid (brand not mapped) and has
\* issued no provider request for the vehicle
UnmappedBrandInvalid ==
    (Queried /\ BrandAbsent) =>
        /\ fipe_data = FipeInvalid("Marca nao mapeada")
        /\ fipe_calls = <<>>

\* a brand neither table maps was looked up against a provider that has
\* models and years for the vehicle's model name
UnmappedBrandQueried ==
    /\ Queried /\ vehicle.brand = "TESLA"
    /\ compatible_all(catalog, split(str_upper(vehicle.model))) # <<>>
    /\ fipe_data.kind = "I" /\ fipe_calls = <<>>

HasTargetYear(m) ==
    \E i \in 1..Len(m.years) : year_value(m.years[i]) = vehicle.year_model

\* the primary candidate lacks the target year and another candidate has it
FallbackCase ==
    /\ Queried /\ compatible # <<>>
    /\ ~HasTargetYear(compatible[Len(compatible)])
    /\ \E i \in 1..Len(compatible) : HasTargetYear(compatible[i])

FirstWithYear ==
    CHOOSE i \in 1..Len(compatible) :
        /\ HasTargetYear(compatible[i])
        /\ \A j \in 1..(i - 1) : ~HasTargetYear(compatible[j])

\* C13: matcher fallback: the first year lookup is for the last candidate;
\* when the target year is absent from its year list and present on another
\* candidate, the year lists are fetched again in list order up to the first
\* candidate that has an entry whose leading year token is the target year,
\* that candidate is valued, and the result is a success with
\* alternative_search = TRUE and the last candidate's label as original model
FallbackInListOrder ==
    /\ (Queried /\ compatible # <<>>) =>
          /\ Len(fipe_calls) >= 2
          /\ fipe_calls[2] =
                FipeCall("ConsultarAnoModelo", compatible[Len(compatible)].Label)
    /\ FallbackCase =>
          LET a == FirstWithYear
          IN  /\ Len(fipe_calls) = a + 3
              /\ \A i \in 1..a :
                    fipe_calls[2 + i] = FipeCall("ConsultarAnoModelo", compatible[i].Label)
              /\ fipe_calls[a + 3] =
                    FipeCall("ConsultarValorComTodosParametros", compatible[a].Label)
              /\ value_answer = "Valor" =>
                    /\ fipe_data.kind = "data"
                    /\ fipe_data.metadata.alternative_search
                    /\ fipe_data.metadata.original_model =
                          compatible[Len(compatible)].Label
                    /\ fipe_data.metadata.model_code = compatible[a].Label

\* of three candidates the last and the first lack the target year and the
\* second has it: the matcher returned the second as an alternative
FallbackTookSecond ==
    /\ FallbackCase /\ Len(compatible) = 3 /\ FirstWithYear = 2
    /\ value_answer = "Valor"
    /\ fipe_data.kind = "data" /\ fipe_data.metadata.alternative_search
    /\ Len(fipe_calls) = 5

Keywords == split(str_upper(vehicle.model))

\* the models whose label contains every keyword or, when there is none, the
\* models whose label contains the first keyword
ExpectedCandidates ==
    LET every == SelectSeq(catalog, LAMBDA m :
                     \A j \in 1..Len(Keywords) : In(Keywords[j], str_upper(m.Label)))
    IN  IF every # <<>> \/ Keywords = <<>> THEN every
        ELSE SelectSeq(catalog, LAMBDA m : In(Keywords[1], str_upper(m.Label)))

\* C20: candidate selection: the candidate list is the provider's models
\* whose label contains every keyword of the model name (case-insensitive
\* substring); only if that list is empty, the models whose label contains
\* the first keyword, no other keyword being tried; if the list is still
\* empty, also when the provider returned no models, the outcome is Invalid
\* (model not found)
CandidateSelection ==
    (Queried /\ ~BrandAbsent) =>
        IF ExpectedCandidates = <<>>
        THEN fipe_data = FipeInvalid("Modelo nao encontrado")
        ELSE compatible = ExpectedCandidates

----------------------------------------------------------------------------
(* Properties of the store after a batch (Spec)                             *)

NotFoundReason == Reason(404, "NOT_FOUND")

\* the step that commits the run's I rows / E rows: the commit of the batch
\* in main_details, the UPDATE itself in the Snowflake flow
CommitsInvalid(r) == IF impl = "pg" THEN Commit(r) ELSE MarkInvalid(r)
CommitsError(r) == IF impl = "pg" THEN Commit(r) ELSE MarkError(r)

\* C14: permanent and transient at the store level: once the batch of a run
\* commits, a plate the provider answered with 404 has status I with reason
\* 404_NOT_FOUND and a plate whose answer gave no result has status E and is
\* among the rows the pending read selects; a plate that is I with reason
\* 404_NOT_FOUND stays so, hence no later pending read returns it
PermanentVsTransient ==
    [][\A k \in Keys :
          /\ (status[k] = "I" /\ reason[k] = NotFoundReason) =>
                (status'[k] = "I" /\ reason'[k] = NotFoundReason)
          /\ \A r \in Runs :
                /\ (CommitsInvalid(r) /\ invalid[r][k] = NotFoundReason) =>
                      (status'[k] = "I" /\ reason'[k] = NotFoundReason)
                /\ (CommitsError(r) /\ k \in failed[r]) =>
                      (status'[k] = "E" /\ k \in Pending')]_vars

\* C15: item-scope exception handling: an exception raised while one item of
\* the batch is processed (here: while its success row is built) is caught
\* for that item, the item is recorded as Error, and the run goes on with the
\* remaining items and its persist steps
ItemExceptionsCaught ==
    \A r \in Runs :
        lastItem[r].last = "raised" =>
            /\ lastItem[r].plate \in failed[r]
            /\ pc[r] \in {"process", "insert", "mark_s", "mark_i", "mark_e", "commit"}

----------------------------------------------------------------------------
(* Properties of a failed invocation (SpecRetry: one invocation on freshly  *)
(* ingested plates, which have status N, 0 attempts and no downstream row)  *)

----------------------------------------------------------------------------
(* Properties of the ingestion (SpecIngest)                                 *)

\* C17: ingestion is append-only and deduplicated: a plate that has a work
\* item keeps that one item with its status, reason, attempt count and
\* insertion time; a plate that gets a work item gets one, New, without
\* reason and with 0 attempts; the COPY of a run whose read of the table is
\* still current takes exactly the source plates that are not in the table,
\* and what a run commits is exactly its source plates that were not there
IngestionAppendOnly ==
    [][/\ \A k \in Keys :
            IF items[k] > 0
            THEN /\ items'[k] = items[k]
                 /\ status'[k] = status[k] /\ reason'[k] = reason[k]
                 /\ attempts'[k] = attempts[k] /\ insertedAt'[k] = insertedAt[k]
            ELSE items'[k] > 0 =>
                 /\ items'[k] = 1
                 /\ status'[k] = "N" /\ reason'[k] = NoReason /\ attempts'[k] = 0
       /\ \A r \in Runs :
            /\ (InsertNewPlates(r) /\ existing_plates[r] = Present) =>
                  /\ ingest_pc'[r] = "commit"
                  /\ copied'[r] = df[r] \ Present
            /\ CommitIngest(r) =>
                  {k \in Keys : items[k] = 0 /\ items'[k] = 1} = df[r] \ Present]_vars

\* an ingestion run has inserted some of its source plates, the others being
\* in the table already, and is about to commit
InsertedNewOnly ==
    \E r \in Runs :
        /\ ingest_pc[r] = "commit"
        /\ copied[r] # {} /\ copied[r] # df[r]
        /\ df[r] \ copied[r] \subseteq Present

----------------------------------------------------------------------------
(* Properties of the downstream table (Spec)                                *)

\* C18: downstream uniqueness: in every reachable state the downstream table
\* holds at most one row per plate, a plate has a downstream row only if its
\* status is Success, and every plate whose status is Success has exactly
\* one downstream row
DownstreamUniqueness ==
    \A k \in Keys :
        /\ details[k] <= 1
        /\ details[k] > 0 => status[k] = "S"
        /\ status[k] = "S" => details[k] = 1

----------------------------------------------------------------------------
(* Properties of the rate-limiter window (SpecBatch)                        *)

\* the number of timestamps a step appended to a window from which it may
\* also have dropped the oldest ones
Appended(old, new) ==
    CHOOSE j \in 0..Len(new) :
        /\ \E i \in 0..Len(old) :
              SubSeq(old, i + 1, Len(old)) = SubSeq(new, 1, Len(new) - j)
        /\ \A j2 \in 0..(j - 1) :
              ~\E i \in 0..Len(old) :
                  SubSeq(old, i + 1, Len(old)) = SubSeq(new, 1, Len(new) - j2)

\* C19: rate-limiter slot accounting: every pass of the item loop that
\* reaches the network (a call answered Invalid and each 429 retry included)
\* appends exactly one timestamp to the window of the run; a plate rejected
\* by the format check appends none and the run does not sleep for it
SlotAccounting ==
    [][\A r \in Runs :
         (SfRequest(r) \/ PgRequest(r)) =>
            LET plate == batch[r][idx[r]]
                n == Appended(request_timestamps[r], request_timestamps'[r])
            IN  IF validate_plate(plate) THEN n = 1
                ELSE n = 0 /\ now' = now]_vars

----------------------------------------------------------------------------
(* Properties of the run of main_fipe.main (SpecFipe)                       *)

\* no candidate has an entry of the model year among its years
NoYearMatch(veh, cands) ==
    \A i \in 1..Len(cands) : compatible_years(cands[i].years, veh.year_model) = <<>>

\* C21: retryable matcher failures: when the vehicle has a candidate model
\* and no candidate has the model year, or the valuation is answered with the
\* provider's "no result" code, the matcher returns None and the vehicle goes
\* to the error list, not to the rows and not to the invalid map; every row of
\* a key of the error list has status Error in what the run commits
RetryableMatcherFailures ==
    [][/\ (/\ FipeProcess
           /\ compatible' # <<>>
           /\ NoYearMatch(vehicle', compatible') \/ value_answer' = "codigo2") =>
             /\ fipe_data' = FipeNone
             /\ fipe_failed' = Append(fipe_failed, key_of(vehicles[fipe_idx]))
             /\ fipe_results' = fipe_results
             /\ fipe_invalid' = fipe_invalid
       /\ FipeCommit =>
             \A v \in FipeRows :
                key_of(v) \in SeqSet(fipe_failed) => fipe_committed'.status[v] = "E"]_vars

\* a run is about to commit Error for a vehicle that had candidates and whose
\* valuation was answered with the "no result" code
MatcherFailureMarkedError ==
    /\ fipe_pc = "commit"
    /\ compatible # <<>> /\ value_answer = "codigo2" /\ fipe_data = FipeNone
    /\ \E v \in FipeRows : key_of(v) \in SeqSet(fipe_failed) /\ fipe_status[v] = "E"

----------------------------------------------------------------------------
(* Properties of the persist phase of the plate flows (Spec)                *)

\* the terminal writes of run r that other connections see
VisibleWrites(r) == {k \in wrote[r] : txStatus[r][k] = ""}

\* the plates of the three partitions of run r
Outcomes(r) == results[r] \cup InvalidKeys(r) \cup failed[r]

\* the downstream rows of run r are inserted and other connections see them
InsertVisible(r) ==
    /\ pc[r] \in {"mark_s", "mark_i", "mark_e", "commit"}
    /\ results[r] # {}
    /\ txRows[r] = NoRows

\* C22: persist ordering: the rows are inserted before mark_success, then
\* mark_invalid and mark_error follow and one commit closes the batch, so
\* that while a run is in flight other connections see none of its terminal
\* writes or all of them, and see its downstream rows only together with the
\* Success status of their plates
PersistAllOrNothing ==
    \A r \in Runs :
        InFlight(r) =>
            /\ VisibleWrites(r) = {} \/ VisibleWrites(r) = Outcomes(r)
            /\ InsertVisible(r) => results[r] \subseteq VisibleWrites(r)

----------------------------------------------------------------------------
(* Properties of the reason column (SpecFipe)                               *)

\* C23: permanent provider errors: a vehicle the run classified Invalid has
\* status Invalid and a reason in the committed table
InvalidHasReason ==
    \A v \in FipeRows : fipe_committed.status[v] = "I" => fipe_reason[v] # ""

----------------------------------------------------------------------------
(* Properties of the attempt count (Spec)                                   *)

\* C24: attempt counting: the attempt count of a plate never decreases; it
\* grows by exactly 1 in a step in which a run claims the plate and stays as
\* it is in every other step
AttemptCounting ==
    [][\A k \in Keys :
         IF \E r \in Runs : Claim(r) /\ k \in claimRows'[r]
         THEN attempts'[k] = attempts[k] + 1
         ELSE attempts'[k] = attempts[k]]_vars

----------------------------------------------------------------------------
(* Properties of the rows a run of main_fipe.main writes (SpecFipe)         *)

\* C25: frame of a run: a row of the vehicle table that is not in the batch
\* of the run keeps its status and its reason, in the run's transaction and
\* in what is committed, also when it has the brand, model and model year of
\* a row of the batch and another year of manufacture
RunFrame ==
    [][\A v \in FipeRows \ SeqSet(vehicles) :
         /\ fipe_status'[v] = fipe_status[v]
         /\ fipe_reason'[v] = fipe_reason[v]
         /\ fipe_committed'.status[v] = fipe_committed.status[v]]_vars

----------------------------------------------------------------------------
(* Properties of the plates a failed run leaves in Processing (Spec)        *)

\* no run is between its pending read and its return
AllIdle == \A r \in Runs : pc[r] = "idle"

\* the plates a failed run left in Processing
Orphans == {k \in Keys : AllIdle /\ status[k] = "P"}

\* the terminal write of run r for plate k becomes visible in this step:
\* the Snowflake flow commits each marking statement, main_details commits
\* the batch
TerminalWriteVisible(r, k) ==
    IF impl = "sf" THEN k \in wrote'[r] \ wrote[r] ELSE Commit(r) /\ k \in wrote[r]

\* C26: orphan recovery: a plate a failed run left in Processing is read by
\* the next run ahead of every Error and New plate (no such plate is in the
\* batch while an orphan is left out), is processed by that run (it is in
\* one of the three partitions and gets a terminal write), and is Success,
\* Error or Invalid when that write is committed
OrphanRecovery ==
    [][\A r \in Runs :
         /\ GetPending(r) =>
              \A k \in Orphans \ SeqSet(batch'[r]) :
                  \A j \in 1..Len(batch'[r]) : batch'[r][j] \in Orphans
         /\ \A k \in SeqSet(batch[r]) :
              readStatus[r][k] = "P" =>
                  /\ Commit(r) => k \in Outcomes(r) /\ k \in wrote[r]
                  /\ TerminalWriteVisible(r, k) => status'[k] \in {"S", "E", "I"}]_vars

\* the run after a failed one read the plate in Processing, processed it
\* and is about to commit
OrphanCommitted ==
    /\ pc[1] = "commit"
    /\ pc[2] = "idle"
    /\ runsLeft = MaxRuns - 2
    /\ \E k \in SeqSet(batch[1]) : readStatus[1][k] = "P" /\ k \in wrote[1]

----------------------------------------------------------------------------
(* Properties of the three partitions of a run (SpecFipe)                   *)

\* the number of partitions of the run the key k is in
FipePartitionsOf(k) ==
    Cardinality({p \in {"results", "invalid", "failed"} :
                   \/ p = "results" /\ k \in SeqSet(fipe_results)
                   \/ p = "invalid" /\ k \in FipeInvalidKeys
                   \/ p = "failed" /\ k \in SeqSet(fipe_failed)})

\* the item loop has ended and every vehicle of the batch is in exactly one
\* partition
FipePartitioned ==
    fipe_pc \in {"insert", "mark_s", "mark_i", "mark_e", "commit"} =>
        \A i \in 1..Len(vehicles) : FipePartitionsOf(key_of(vehicles[i])) = 1

\* C27: outcome partition: when the item loop of a run has ended, every
\* vehicle of the batch is in exactly one of the success rows, the Invalid
\* map and the Error list, and when the run commits, no vehicle of its batch
\* is left in Processing
OutcomePartition ==
    [][/\ FipePartitioned'
       /\ FipeCommit =>
            \A i \in 1..Len(vehicles) : fipe_committed'.status[vehicles[i]] # "P"]_vars

----------------------------------------------------------------------------
(* Properties of repeated runs of main_fipe.main (SpecFipeRuns)             *)

\* a vehicle table in which two rows are in Error after an earlier run, and
\* the others are new or done
InitFipeRuns ==
    /\ InitFipe
    /\ catalog = FlowCatalog
    /\ fipe_status[Row("VW", POLO_GL, "2020", TargetYear)] = "E"
    /\ fipe_status[Row("VW", GOL_GL, "2019", TargetYear)] = "E"
    /\ \A v \in FipeRows : fipe_status[v] = "E" => v.brand = "VW" /\ v.model # KA

\* runs of main_fipe.main one after the other, for ever; the vehicle table
\* gets no further rows
SpecFipeRuns ==
    InitFipeRuns /\ [][NextFipe]_vars /\ WF_vars(FipeGetPending) /\ WF_vars(FipeCommit)

\* C28: no starvation of new work: when runs commit again and again, every
\* row of the vehicle table with status New is eventually claimed (set to
\* Processing) by some run, also when other rows end every run in Error
NoStarvation ==
    []<><<FipeCommit>>_vars =>
        \A v \in FipeRows : (fipe_status[v] = "N") ~> (fipe_status[v] = "P")

----------------------------------------------------------------------------
(* Properties of the end of a run of the plate flows (SpecRetryRuns)        *)

\* one run over its batch: the process goes on as long as it has a step
SpecRetryRuns == SpecRetry /\ WF_vars(Next)

\* the longest backoff of a retry loop
MaxBackoff == backoff_time(MAX_RETRIES - 1)

\* C29: batch termination: whatever the provider answers, 429 on every
\* attempt included, a plate gets at most MAX_RETRIES requests, every backoff
\* is at most MaxBackoff, and a run that has read its batch reaches its
\* commit or its rollback and returns
BatchTermination ==
    /\ [](\A r \in Runs :
            /\ tries[r] < MAX_RETRIES
            /\ lastItem[r].requests <= MAX_RETRIES
            /\ \A i \in 1..Len(backoffs[r]) : backoffs[r][i] <= MaxBackoff)
    /\ ~AllIdle ~> AllIdle

\* a plate was answered 429 on each of its MAX_RETRIES requests and the run
\* is at its commit
ExhaustedBeforeCommit ==
    \E r \in Runs :
        /\ pc[r] = "commit"
        /\ \E k \in failed[r] : total_429[r] >= MAX_RETRIES /\ k \in called[r]

----------------------------------------------------------------------------
(* Properties of the audit metadata of a valuation (SpecFipe)              *)

\* C30: audit flag consistency: when the matcher returns a valuation,
\* alternative_search is true exactly when the model code of the valuation
\* request is not the code of the primary (last) candidate, and the original
\* model is recorded exactly when alternative_search is true, also when the
\* first year lookup of the primary candidate fails or is empty
AuditFlagConsistency ==
    fipe_data.kind = "data" =>
        /\ fipe_data.metadata.alternative_search
              <=> fipe_data.metadata.model_code # found_model(compatible).Label
        /\ fipe_data.metadata.original_model # NoModel
              <=> fipe_data.metadata.alternative_search

====
